---- MODULE Spec2Model ----
(***************************************************************************)
(* PiWebcam motion detection: compare_frames and the MotionDetector state  *)
(* machine of webcam.py, shared by several threads under state_lock; the   *)
(* start-up validation of main, the in-memory snapshot history and the     *)
(* authentication gate of the HTTP handler.                                *)
(*                                                                         *)
(* Modelling conventions                                                   *)
(*   - a frame (JPEG bytes) is a record: kind "none" is Python None, kind  *)
(*     "garbage" is bytes PIL cannot decode, kind "jpeg" decodes to an     *)
(*     h x w grayscale array px (row major);                               *)
(*   - percentages and seconds are integers; the frames are chosen so that *)
(*     every percentage the code computes is a whole number;               *)
(*   - last_motion_time = None is NoTime;                                  *)
(*   - every thread executes the methods statement by statement: one       *)
(*     action per write of a detector field, named after its source line.  *)
(***************************************************************************)
EXTENDS Integers, Sequences, FiniteSets

\* ------------------------------------------------------------------ bounds
MaxTime == 2
MaxEvents == 2
MaxSaves == 4
MaxServed == 2
MaxWrites == 3

\* --------------------------------------------------------------- constants
DefaultPixelThreshold == 5
NoTime == -1

STATE_IDLE == "idle"
STATE_MOTION_DETECTED == "motion_detected"
STATE_COOLDOWN == "cooldown"

\* configured values the detector may be constructed with
Thresholds == {0, 50}
Cooldowns == {0, 2}

CheckThreads == {"c1", "c2"}
StatusThreads == {"s1"}
Threads == CheckThreads \cup StatusThreads
Free == "free"

\* ------------------------------------------------------------------ frames
NoFrame == [kind |-> "none", h |-> 0, w |-> 0, px |-> <<>>]
Garbage == [kind |-> "garbage", h |-> 0, w |-> 0, px |-> <<>>]
Jpeg(hh, ww, pixels) == [kind |-> "jpeg", h |-> hh, w |-> ww, px |-> pixels]

Black == Jpeg(1, 2, <<0, 0>>)
White == Jpeg(1, 2, <<255, 255>>)
Half == Jpeg(1, 2, <<0, 255>>)

\* the frames the capture side may hand to check_motion
Frames == {Black, White, Half, Garbage}

Dim == Jpeg(1, 2, <<3, 3>>)
Gray20 == Jpeg(1, 2, <<20, 20>>)
Gray128 == Jpeg(1, 2, <<128, 128>>)
Gray130 == Jpeg(1, 2, <<130, 130>>)
Dot == Jpeg(1, 1, <<0>>)
Wide == Jpeg(1, 3, <<0, 0, 0>>)

\* the frames and pixel thresholds compare_frames may be called with
CompareFrames == {NoFrame, Garbage, Black, White, Half, Gray128, Gray130, Dot, Wide}
PixelThresholds == {-1, 0, 1, 2, 5, 10}

\* ---------------------------------------------------------- compare_frames
Abs(x) == IF x < 0 THEN -x ELSE x
Max(a, b) == IF a >= b THEN a ELSE b

\* Image.open(...).convert('L') succeeds
Decodable(f) == f.kind = "jpeg"

\* numpy broadcasting of two 2-d shapes
Broadcastable(a, b) ==
    /\ (a.h = b.h \/ a.h = 1 \/ b.h = 1)
    /\ (a.w = b.w \/ a.w = 1 \/ b.w = 1)

\* element (r, c) (0-based) of array a broadcast to a larger shape
Elem(a, r, c) ==
    LET rr == IF a.h = 1 THEN 0 ELSE r
        cc == IF a.w = 1 THEN 0 ELSE c
    IN  a.px[rr * a.w + cc + 1]

\* mutant of ChangedPixels: a difference equal to the threshold counts
ChangedPixelsInclusive(a, b, thr) ==
    Cardinality({rc \in (0 .. Max(a.h, b.h) - 1) \X (0 .. Max(a.w, b.w) - 1) :
                    Abs(Elem(a, rc[1], rc[2]) - Elem(b, rc[1], rc[2])) >= thr})

\* np.sum(np.abs(arr1 - arr2) > threshold)
ChangedPixels(a, b, thr) ==
    Cardinality({rc \in (0 .. Max(a.h, b.h) - 1) \X (0 .. Max(a.w, b.w) - 1) :
                    Abs(Elem(a, rc[1], rc[2]) - Elem(b, rc[1], rc[2])) > thr})

\* the try block raises: Image.open fails, or arr1 - arr2 cannot broadcast
TryRaises(f1, f2) == ~Decodable(f1) \/ ~Decodable(f2) \/ ~Broadcastable(f1, f2)

\* mutant of Percentage: any changed pixel counts as a full change
PercentageAny(f1, f2, thr) == IF ChangedPixels(f1, f2, thr) > 0 THEN 100 ELSE 0

\* mutant of Percentage: the pixels that did not change are counted
PercentageUnchanged(f1, f2, thr) ==
    ((f1.h * f1.w - ChangedPixels(f1, f2, thr)) * 100) \div (f1.h * f1.w)

\* (changed_pixels / arr1.size) * 100.0
Percentage(f1, f2, thr) == (ChangedPixels(f1, f2, thr) * 100) \div (f1.h * f1.w)

compare_frames(f1, f2, thr) ==
    IF f1 = NoFrame \/ f2 = NoFrame THEN 0
    ELSE IF TryRaises(f1, f2) THEN 0
    ELSE Percentage(f1, f2, thr)

\* ------------------------------------------------------------------- state
VARIABLES
    threshold, cooldown_seconds,      \* MotionDetector configuration
    state, motion_event_count, last_motion_time, last_change_percentage,
    previous_frame, baseline_frame,   \* MotionDetector fields
    state_lock,                       \* holder of self.state_lock, or Free
    now,                              \* time.time()
    pc,                               \* position of every thread
    arg,                              \* check_motion: current_frame_bytes
    chg,                              \* check_motion: change_percentage / baseline_change
    ret,                              \* check_motion: the returned tuple
    res,                              \* get_status: the dict being built
    act,                              \* is_motion_active: the returned boolean
    pre,                              \* history: the fields when the call took the lock
    committed,                        \* history: the fields at the last check_motion exit
    transitions,                      \* history: number of Idle -> MotionDetected writes
    baseline_origin,                  \* history: frame of the last call that primed or left Cooldown
    baseline_by,                      \* history: the running call that wrote baseline_frame
    last_supplied,                    \* history: frame of the last finished call that carried one
    last_compared,                    \* history: frame of the last finished call that primed or compared
    frame1_bytes, frame2_bytes,       \* compare_frames called by itself: the two frames
    pixel_threshold,                  \* compare_frames called by itself: threshold
    outcome,                          \* compare_frames called by itself: how the call ended
    MOTION_SNAPSHOT_ENABLED, MOTION_SNAPSHOT_LIMIT,
    snapshot_history,                 \* list of (timestamp, bytes)
    saved,                            \* history: every entry save_motion_snapshot appended
    args,                             \* main: the parsed command line
    MOTION_DETECTION_AVAILABLE,       \* PIL and numpy were imported
    motion_detector,                  \* the global: "None" or "detector"
    main_pc,                          \* main: position
    AUTH_ENABLED, AUTH_USER, AUTH_PASS,
    current_frame,                    \* the frame served as /webcam.jpg
    request,                          \* do_GET: path and Authorization header
    response,                         \* do_GET: what was sent
    stream_frame,                     \* monitoring_loop: frame_bytes
    motion_detected, change_pct,      \* monitoring_loop: the tuple check_motion returned
    snapshot_lock,                    \* holder of snapshot_lock, or Free
    endpoint,                         \* do_GET of the motion endpoints: filename
    snapshot_count,                   \* do_GET motion/status: len(snapshot_history) as read
    latest_snapshot,                  \* do_GET motion/snapshot: the bytes read
    motion_status,                    \* do_GET: the motion part of the JSON sent
    output_frame,                     \* StreamingOutput.frame
    buffer,                           \* StreamingOutput.buffer: contents and position
    condition,                        \* holder of StreamingOutput.condition, or Free
    writer_pc, buf,                   \* StreamingOutput.write: position and argument
    stored_seq,                       \* history: number of writes that stored a frame
    taken_seq,                        \* history: which write stored the frame the loop read
    checked,                          \* history: the writes whose frame went to check_motion
    last_marked                       \* history: the last buffer written that began with the marker

fields == <<state, motion_event_count, last_motion_time, last_change_percentage,
            previous_frame, baseline_frame>>
config == <<threshold, cooldown_seconds>>
checkLocals == <<arg, chg, ret, pre>>
statusLocals == <<res, act>>
history == <<committed, transitions, baseline_origin, baseline_by,
             last_supplied, last_compared>>
compareVars == <<frame1_bytes, frame2_bytes, pixel_threshold, outcome>>
snapshotVars == <<MOTION_SNAPSHOT_ENABLED, MOTION_SNAPSHOT_LIMIT, snapshot_history, saved>>
mainVars == <<args, MOTION_DETECTION_AVAILABLE, motion_detector, main_pc>>
httpVars == <<AUTH_ENABLED, AUTH_USER, AUTH_PASS, current_frame, request, response>>
\* the variables of the program outside the MotionDetector instance
monitorVars == <<stream_frame, motion_detected, change_pct>>
serveVars == <<snapshot_lock, endpoint, snapshot_count, latest_snapshot, motion_status>>
streamVars == <<output_frame, buffer, condition, writer_pc, buf,
                stored_seq, taken_seq, checked, last_marked>>
outside == <<compareVars, snapshotVars, mainVars, httpVars, monitorVars, serveVars, streamVars>>
vars == <<config, fields, state_lock, now, pc, checkLocals, statusLocals, history, outside>>

Snapshot == [state |-> state,
             motion_event_count |-> motion_event_count,
             last_motion_time |-> last_motion_time,
             last_change_percentage |-> last_change_percentage,
             previous_frame |-> previous_frame,
             baseline_frame |-> baseline_frame,
             now |-> now]

NoSnapshot == [state |-> "", motion_event_count |-> 0, last_motion_time |-> NoTime,
               last_change_percentage |-> 0, previous_frame |-> NoFrame,
               baseline_frame |-> NoFrame, now |-> 0]

NoRet == [motion |-> FALSE, pct |-> -1]
Ret(m, p) == [motion |-> m, pct |-> p]

NoStatus == [state |-> "", motion_event_count |-> -1, last_motion_time |-> NoTime,
             last_change_percentage |-> -1, threshold |-> -1, cooldown_seconds |-> -1]

\* monitoring_loop has not taken a frame from the stream yet
MonitorIdle ==
    /\ stream_frame = NoFrame
    /\ motion_detected = FALSE
    /\ change_pct = 0

\* the motion part of a JSON response
MotionStatus(st, det, cnt) ==
    [state |-> st, currently_detecting |-> det, motion_event_count |-> cnt]
NoMotionStatus == MotionStatus("", FALSE, -1)

\* no handler is serving a motion endpoint, nobody holds snapshot_lock
ServeIdle ==
    /\ snapshot_lock = Free
    /\ endpoint = "none"
    /\ snapshot_count = 0
    /\ latest_snapshot = NoFrame
    /\ motion_status = NoMotionStatus

\* None where bytes are expected
NoBytes == <<-1>>

\* StreamingOutput.__init__, before the camera has written anything
StreamIdle ==
    /\ output_frame = NoBytes
    /\ buffer = [data |-> <<>>, pos |-> 0]
    /\ condition = Free
    /\ writer_pc = "idle"
    /\ buf = NoBytes
    /\ stored_seq = 0
    /\ taken_seq = 0
    /\ checked = <<>>
    /\ last_marked = NoBytes

\* no thread has called a method of the detector yet
NoCalls ==
    /\ MonitorIdle
    /\ ServeIdle
    /\ StreamIdle
    /\ now = 0
    /\ pc = [t \in Threads |-> "idle"]
    /\ arg = [t \in CheckThreads |-> NoFrame]
    /\ chg = [t \in CheckThreads |-> 0]
    /\ ret = [t \in CheckThreads |-> NoRet]
    /\ pre = [t \in CheckThreads |-> NoSnapshot]
    /\ res = [t \in StatusThreads |-> NoStatus]
    /\ act = [t \in StatusThreads |-> FALSE]

\* how a call of compare_frames ended
NoOutcome == [at |-> "none", value |-> 0]

\* compare_frames is not being called by itself
CompareIdle ==
    /\ frame1_bytes = NoFrame
    /\ frame2_bytes = NoFrame
    /\ pixel_threshold = DefaultPixelThreshold
    /\ outcome = NoOutcome

\* the module-level snapshot globals
SnapshotDefaults ==
    /\ MOTION_SNAPSHOT_ENABLED = FALSE
    /\ MOTION_SNAPSHOT_LIMIT = 0
    /\ snapshot_history = <<>>
    /\ saved = <<>>

NoArgs == [motion_detect |-> TRUE, motion_threshold |-> 0, motion_cooldown |-> 0,
           motion_snapshot |-> FALSE, motion_snapshot_limit |-> 0]

\* main has run to the point where the server is serving
MainDone ==
    /\ args = NoArgs
    /\ MOTION_DETECTION_AVAILABLE = TRUE
    /\ motion_detector = "detector"
    /\ main_pc = "serving"

\* an Authorization header "<scheme>[ <auth_string>]": space says whether a
\* blank follows the scheme, decodes whether auth_string is the base64 of
\* UTF-8 text, text that text as a sequence of tokens; NoHeader is no header
Header(sch, sp, dec, txt) ==
    [present |-> TRUE, scheme |-> sch, space |-> sp, decodes |-> dec, text |-> txt]
NoHeader == [present |-> FALSE, scheme |-> "", space |-> FALSE, decodes |-> FALSE,
             text |-> <<>>]
\* a request: self.path as a sequence of tokens, the header, the handler's position
NoRequest == [path |-> <<>>, header |-> NoHeader, at |-> "none"]
\* the Content-type header sent with each body (for a file it is
\* contentTypeFrom(filename), which is not told apart here)
ContentType(b) ==
    CASE b = "stream" -> "multipart/x-mixed-replace"
      [] b \in {"frame", "snapshot"} -> "image/jpeg"
      [] b \in {"health", "status", "not_enabled_json"} -> "application/json"
      [] b = "file" -> "by extension"
      [] b = "none" -> "none"
      [] OTHER -> "text/plain"
\* a response: status code, which body was written, whether WWW-Authenticate
\* was sent, the content type, and the frame bytes written (if any)
Response(c, b, ch) ==
    [code |-> c, body |-> b, challenge |-> ch, ctype |-> ContentType(b),
     content |-> NoFrame]
NoResponse == Response(0, "none", FALSE)

\* no request is being handled; the authentication globals as imported
HttpIdle ==
    /\ AUTH_ENABLED = FALSE
    /\ AUTH_USER = <<>>
    /\ AUTH_PASS = <<>>
    /\ current_frame = NoFrame
    /\ request = NoRequest
    /\ response = NoResponse

\* no call is writing baseline_frame (Earlier), none has primed the detector
Earlier == "earlier"
NoBaselineHistory ==
    /\ baseline_origin = NoFrame
    /\ baseline_by = Earlier

\* no call that carried a frame has finished
NoCallHistory ==
    /\ last_supplied = NoFrame
    /\ last_compared = NoFrame

\* MotionDetector.__init__
DetectorInit ==
    /\ threshold \in Thresholds
    /\ cooldown_seconds \in Cooldowns
    /\ state = STATE_IDLE
    /\ state_lock = Free
    /\ motion_event_count = 0
    /\ last_motion_time = NoTime
    /\ last_change_percentage = 0
    /\ previous_frame = NoFrame
    /\ baseline_frame = NoFrame
    /\ NoCalls
    /\ committed = Snapshot
    /\ transitions = 0
    /\ NoBaselineHistory
    /\ NoCallHistory

\* a constructed detector in a process where nothing else is going on
Init ==
    /\ DetectorInit
    /\ CompareIdle
    /\ SnapshotDefaults
    /\ MainDone
    /\ HttpIdle

\* the clock advances
Tick ==
    /\ now < MaxTime
    /\ now' = now + 1
    /\ UNCHANGED <<outside, config, fields, state_lock, pc, checkLocals, statusLocals, history>>

\* mutant of LockAvailable: the lock excludes nobody
LockIgnored == TRUE

\* with self.state_lock: entry (threading.Lock.acquire)
LockAvailable == state_lock = Free

Goto(t, l) == pc' = [pc EXCEPT ![t] = l]

\* ------------------------------------------------------------ check_motion
\* line 186: a thread calls check_motion with a frame (line 196 is false)
CheckMotionCall(t) ==
    /\ pc[t] = "idle"
    /\ motion_event_count < MaxEvents
    /\ Goto(t, "l199")
    /\ UNCHANGED <<outside, config, fields, state_lock, now, checkLocals, statusLocals, history>>

\* mutant of CheckMotionNone: an absent frame resets the reported percentage
CheckMotionNoneResets(t) ==
    /\ pc[t] = "idle"
    /\ motion_event_count < MaxEvents
    /\ arg' = [arg EXCEPT ![t] = NoFrame]
    /\ ret' = [ret EXCEPT ![t] = Ret(FALSE, 0)]
    /\ last_change_percentage' = 0
    /\ Goto(t, "l197")
    /\ UNCHANGED <<outside, config, state, motion_event_count, last_motion_time, previous_frame,
                   baseline_frame, state_lock, now, chg, pre, statusLocals, history>>

\* lines 196-197: check_motion(None) returns (False, 0.0) before taking the lock
CheckMotionNone(t) ==
    /\ pc[t] = "idle"
    /\ motion_event_count < MaxEvents
    /\ arg' = [arg EXCEPT ![t] = NoFrame]
    /\ ret' = [ret EXCEPT ![t] = Ret(FALSE, 0)]
    /\ Goto(t, "l197")
    /\ UNCHANGED <<outside, config, fields, state_lock, now, chg, pre, statusLocals, history>>

\* the caller receives the tuple of lines 196-197
ReturnNone(t) ==
    /\ pc[t] = "l197"
    /\ ret' = [ret EXCEPT ![t] = NoRet]
    /\ Goto(t, "idle")
    /\ UNCHANGED <<outside, config, fields, state_lock, now, arg, chg, pre, statusLocals, history>>

\* line 199: with self.state_lock. The frame of the call is drawn here: no
\* step between the call and the lock reads it
L199From(t, scene) ==
    /\ pc[t] = "l199"
    /\ LockAvailable
    /\ state_lock' = t
    /\ \E f \in scene : arg' = [arg EXCEPT ![t] = f]
    /\ pre' = [pre EXCEPT ![t] = Snapshot]
    /\ Goto(t, "l201")
    /\ UNCHANGED <<outside, config, fields, now, chg, ret, statusLocals, history>>

\* line 199, the frame being any the capture side may hand over
L199(t) == L199From(t, Frames)

\* mutant of is_cooldown_expired: the cooldown is never waited for
CooldownAlwaysExpired == TRUE

\* mutant of is_cooldown_expired: the boundary elapsed = cooldown_seconds is excluded
CooldownExpiredStrict ==
    IF last_motion_time = NoTime THEN TRUE
    ELSE now - last_motion_time > cooldown_seconds

\* lines 251-256
is_cooldown_expired ==
    IF last_motion_time = NoTime THEN TRUE
    ELSE now - last_motion_time >= cooldown_seconds

\* mutant of L201: a call during an active cooldown stores its frame
L201StoresDuringCooldown(t) ==
    /\ pc[t] = "l201"
    /\ IF previous_frame = NoFrame
       THEN /\ previous_frame' = arg[t]
            /\ baseline_origin' = arg[t]
            /\ Goto(t, "l203")
            /\ UNCHANGED <<state, ret>>
       ELSE IF state = STATE_COOLDOWN
       THEN IF is_cooldown_expired
            THEN /\ state' = STATE_IDLE
                 /\ baseline_origin' = arg[t]
                 /\ Goto(t, "l210")
                 /\ UNCHANGED <<previous_frame, ret>>
            ELSE /\ ret' = [ret EXCEPT ![t] = Ret(FALSE, last_change_percentage)]
                 /\ previous_frame' = arg[t]
                 /\ Goto(t, "exit")
                 /\ UNCHANGED <<state, baseline_origin>>
       ELSE /\ Goto(t, "l217")
            /\ UNCHANGED <<previous_frame, state, ret, baseline_origin>>
    /\ UNCHANGED <<outside, config, motion_event_count, last_motion_time, last_change_percentage,
                   baseline_frame, state_lock, now, arg, chg, pre, statusLocals,
                   committed, transitions, baseline_by, last_supplied, last_compared>>

\* lines 201-202, 207-209 and 212-214: priming, or the cooldown test
L201(t) ==
    /\ pc[t] = "l201"
    /\ IF previous_frame = NoFrame
       THEN /\ previous_frame' = arg[t]
            /\ baseline_origin' = arg[t]
            /\ Goto(t, "l203")
            /\ UNCHANGED <<state, ret>>
       ELSE IF state = STATE_COOLDOWN
       THEN IF is_cooldown_expired
            THEN /\ state' = STATE_IDLE
                 /\ baseline_origin' = arg[t]
                 /\ Goto(t, "l210")
                 /\ UNCHANGED <<previous_frame, ret>>
            ELSE /\ ret' = [ret EXCEPT ![t] = Ret(FALSE, last_change_percentage)]
                 /\ Goto(t, "exit")
                 /\ UNCHANGED <<previous_frame, state, baseline_origin>>
       ELSE /\ Goto(t, "l217")
            /\ UNCHANGED <<previous_frame, state, ret, baseline_origin>>
    /\ UNCHANGED <<outside, config, motion_event_count, last_motion_time, last_change_percentage,
                   baseline_frame, state_lock, now, arg, chg, pre, statusLocals,
                   committed, transitions, baseline_by, last_supplied, last_compared>>

\* mutant of L203: priming forgets the baseline
L203NoBaseline(t) ==
    /\ pc[t] = "l203"
    /\ ret' = [ret EXCEPT ![t] = Ret(FALSE, 0)]
    /\ Goto(t, "exit")
    /\ UNCHANGED <<outside, config, fields, state_lock, now, arg, chg, pre, statusLocals, history>>

\* lines 203-204
L203(t) ==
    /\ pc[t] = "l203"
    /\ baseline_frame' = arg[t]
    /\ baseline_by' = t
    /\ ret' = [ret EXCEPT ![t] = Ret(FALSE, 0)]
    /\ Goto(t, "exit")
    /\ UNCHANGED <<outside, config, state, motion_event_count, last_motion_time,
                   last_change_percentage, previous_frame, state_lock, now,
                   arg, chg, pre, statusLocals, committed, transitions, baseline_origin,
                   last_supplied, last_compared>>

\* mutant of L210: leaving Cooldown keeps the old baseline
L210KeepsBaseline(t) ==
    /\ pc[t] = "l210"
    /\ Goto(t, "l217")
    /\ UNCHANGED <<outside, config, fields, state_lock, now, checkLocals, statusLocals, history>>

\* line 210
L210(t) ==
    /\ pc[t] = "l210"
    /\ baseline_frame' = arg[t]
    /\ baseline_by' = t
    /\ Goto(t, "l217")
    /\ UNCHANGED <<outside, config, state, motion_event_count, last_motion_time,
                   last_change_percentage, previous_frame, state_lock, now,
                   checkLocals, statusLocals, committed, transitions, baseline_origin,
                   last_supplied, last_compared>>

\* mutant of L217: in MotionDetected the frame is compared with previous_frame
L217ComparesPrevious(t) ==
    /\ pc[t] = "l217"
    /\ IF state = STATE_IDLE
       THEN LET change_percentage ==
                    compare_frames(previous_frame, arg[t], DefaultPixelThreshold)
            IN  /\ chg' = [chg EXCEPT ![t] = change_percentage]
                /\ last_change_percentage' = change_percentage
                /\ Goto(t, "l221")
                /\ ret' = ret
       ELSE IF state = STATE_MOTION_DETECTED
       THEN LET baseline_change ==
                    compare_frames(previous_frame, arg[t], DefaultPixelThreshold)
            IN  /\ chg' = [chg EXCEPT ![t] = baseline_change]
                /\ last_change_percentage' = baseline_change
                /\ Goto(t, "l237")
                /\ ret' = ret
       ELSE /\ ret' = [ret EXCEPT ![t] = Ret(FALSE, last_change_percentage)]
            /\ Goto(t, "exit")
            /\ UNCHANGED <<chg, last_change_percentage>>
    /\ UNCHANGED <<outside, config, state, motion_event_count, last_motion_time,
                   previous_frame, baseline_frame, state_lock, now, arg, pre,
                   statusLocals, history>>

\* lines 217-220 and 233-236: the comparison of the branch the state selects;
\* line 249 when the state is neither
L217(t) ==
    /\ pc[t] = "l217"
    /\ IF state = STATE_IDLE
       THEN LET change_percentage ==
                    compare_frames(previous_frame, arg[t], DefaultPixelThreshold)
            IN  /\ chg' = [chg EXCEPT ![t] = change_percentage]
                /\ last_change_percentage' = change_percentage
                /\ Goto(t, "l221")
                /\ ret' = ret
       ELSE IF state = STATE_MOTION_DETECTED
       THEN LET baseline_change ==
                    compare_frames(baseline_frame, arg[t], DefaultPixelThreshold)
            IN  /\ chg' = [chg EXCEPT ![t] = baseline_change]
                /\ last_change_percentage' = baseline_change
                /\ Goto(t, "l237")
                /\ ret' = ret
       ELSE /\ ret' = [ret EXCEPT ![t] = Ret(FALSE, last_change_percentage)]
            /\ Goto(t, "exit")
            /\ UNCHANGED <<chg, last_change_percentage>>
    /\ UNCHANGED <<outside, config, state, motion_event_count, last_motion_time,
                   previous_frame, baseline_frame, state_lock, now, arg, pre,
                   statusLocals, history>>

\* mutant of L221: the Idle branch keeps the old previous_frame
L221KeepsPrevious(t) ==
    /\ pc[t] = "l221"
    /\ Goto(t, "l224")
    /\ UNCHANGED <<outside, config, fields, state_lock, now, checkLocals, statusLocals, history>>

\* line 221
L221(t) ==
    /\ pc[t] = "l221"
    /\ previous_frame' = arg[t]
    /\ Goto(t, "l224")
    /\ UNCHANGED <<outside, config, state, motion_event_count, last_motion_time,
                   last_change_percentage, baseline_frame, state_lock, now,
                   checkLocals, statusLocals, history>>

\* mutant of MotionStarted: a result equal to the threshold does not start motion
MotionStartedStrict(change_percentage) == change_percentage > threshold

\* line 224: the test that starts motion
MotionStarted(change_percentage) == change_percentage >= threshold

\* lines 224-226 and 230-231
L224(t) ==
    /\ pc[t] = "l224"
    /\ IF MotionStarted(chg[t])
       THEN /\ state' = STATE_MOTION_DETECTED
            /\ transitions' = IF state = STATE_IDLE THEN transitions + 1 ELSE transitions
            /\ Goto(t, "l227")
            /\ ret' = ret
       ELSE /\ ret' = [ret EXCEPT ![t] = Ret(FALSE, chg[t])]
            /\ Goto(t, "exit")
            /\ UNCHANGED <<state, transitions>>
    /\ UNCHANGED <<outside, config, motion_event_count, last_motion_time, last_change_percentage,
                   previous_frame, baseline_frame, state_lock, now, arg, chg, pre,
                   statusLocals, committed, baseline_origin, baseline_by,
                   last_supplied, last_compared>>

\* line 227
L227(t) ==
    /\ pc[t] = "l227"
    /\ motion_event_count' = motion_event_count + 1
    /\ Goto(t, "l228")
    /\ UNCHANGED <<outside, config, state, last_motion_time, last_change_percentage,
                   previous_frame, baseline_frame, state_lock, now,
                   checkLocals, statusLocals, history>>

\* mutant of L228: the start of motion is not timed
L228KeepsTime(t) ==
    /\ pc[t] = "l228"
    /\ ret' = [ret EXCEPT ![t] = Ret(TRUE, chg[t])]
    /\ Goto(t, "exit")
    /\ UNCHANGED <<outside, config, fields, state_lock, now,
                   arg, chg, pre, statusLocals, history>>

\* lines 228-229
L228(t) ==
    /\ pc[t] = "l228"
    /\ last_motion_time' = now
    /\ ret' = [ret EXCEPT ![t] = Ret(TRUE, chg[t])]
    /\ Goto(t, "exit")
    /\ UNCHANGED <<outside, config, state, motion_event_count, last_change_percentage,
                   previous_frame, baseline_frame, state_lock, now,
                   arg, chg, pre, statusLocals, history>>

\* mutant of L237: the MotionDetected branch moves the baseline along
L237WritesBaseline(t) ==
    /\ pc[t] = "l237"
    /\ previous_frame' = arg[t]
    /\ baseline_frame' = arg[t]
    /\ Goto(t, "l239")
    /\ UNCHANGED <<outside, config, state, motion_event_count, last_motion_time,
                   last_change_percentage, state_lock, now,
                   checkLocals, statusLocals, history>>

\* line 237
L237(t) ==
    /\ pc[t] = "l237"
    /\ previous_frame' = arg[t]
    /\ Goto(t, "l239")
    /\ UNCHANGED <<outside, config, state, motion_event_count, last_motion_time,
                   last_change_percentage, baseline_frame, state_lock, now,
                   checkLocals, statusLocals, history>>

\* line 239: the test that ends motion
MotionEnded(baseline_change) == baseline_change < threshold

\* mutant of L239: the end of motion skips the cooldown
L239EndsInIdle(t) ==
    /\ pc[t] = "l239"
    /\ IF MotionEnded(chg[t])
       THEN /\ state' = STATE_IDLE
            /\ Goto(t, "l242")
            /\ UNCHANGED <<last_motion_time, ret>>
       ELSE /\ last_motion_time' = now
            /\ ret' = [ret EXCEPT ![t] = Ret(TRUE, chg[t])]
            /\ Goto(t, "exit")
            /\ state' = state
    /\ UNCHANGED <<outside, config, motion_event_count, last_change_percentage,
                   previous_frame, baseline_frame, state_lock, now, arg, chg, pre,
                   statusLocals, history>>

\* lines 239-241 and 244-247
L239(t) ==
    /\ pc[t] = "l239"
    /\ IF MotionEnded(chg[t])
       THEN /\ state' = STATE_COOLDOWN
            /\ Goto(t, "l242")
            /\ UNCHANGED <<last_motion_time, ret>>
       ELSE /\ last_motion_time' = now
            /\ ret' = [ret EXCEPT ![t] = Ret(TRUE, chg[t])]
            /\ Goto(t, "exit")
            /\ state' = state
    /\ UNCHANGED <<outside, config, motion_event_count, last_change_percentage,
                   previous_frame, baseline_frame, state_lock, now, arg, chg, pre,
                   statusLocals, history>>

\* mutant of L242: the call that ends motion still reports motion
L242ReturnsTrue(t) ==
    /\ pc[t] = "l242"
    /\ last_motion_time' = now
    /\ ret' = [ret EXCEPT ![t] = Ret(TRUE, chg[t])]
    /\ Goto(t, "exit")
    /\ UNCHANGED <<outside, config, state, motion_event_count, last_change_percentage,
                   previous_frame, baseline_frame, state_lock, now,
                   arg, chg, pre, statusLocals, history>>

\* lines 242-243
L242(t) ==
    /\ pc[t] = "l242"
    /\ last_motion_time' = now
    /\ ret' = [ret EXCEPT ![t] = Ret(FALSE, chg[t])]
    /\ Goto(t, "exit")
    /\ UNCHANGED <<outside, config, state, motion_event_count, last_change_percentage,
                   previous_frame, baseline_frame, state_lock, now,
                   arg, chg, pre, statusLocals, history>>

\* the call returned at line 214: it found the cooldown still active
ShortCircuited(t) == pre[t].state = STATE_COOLDOWN /\ state = STATE_COOLDOWN

\* mutant of CheckMotionExit: the early returns leave without releasing the lock
ExitKeepsLockOnEarlyReturn(t) ==
    /\ pc[t] = "exit"
    /\ state_lock' = IF ret[t].motion \/ chg[t] > 0 THEN Free ELSE state_lock
    /\ committed' = Snapshot
    /\ arg' = [arg EXCEPT ![t] = NoFrame]
    /\ chg' = [chg EXCEPT ![t] = 0]
    /\ ret' = [ret EXCEPT ![t] = NoRet]
    /\ pre' = [pre EXCEPT ![t] = NoSnapshot]
    /\ Goto(t, "idle")
    /\ baseline_by' = Earlier
    /\ last_supplied' = arg[t]
    /\ last_compared' = IF ShortCircuited(t) THEN last_compared ELSE arg[t]
    /\ UNCHANGED <<outside, config, fields, now, statusLocals, transitions, baseline_origin>>

\* the end of the with block of line 199 inside the detector: the lock is
\* released, the frame of the call is forgotten, the caller goes on at l
ReleaseAndReturn(t, l) ==
    /\ pc[t] = "exit"
    /\ state_lock' = Free
    /\ committed' = Snapshot
    /\ arg' = [arg EXCEPT ![t] = NoFrame]
    /\ chg' = [chg EXCEPT ![t] = 0]
    /\ ret' = [ret EXCEPT ![t] = NoRet]
    /\ pre' = [pre EXCEPT ![t] = NoSnapshot]
    /\ Goto(t, l)
    /\ baseline_by' = Earlier
    /\ last_supplied' = arg[t]
    /\ last_compared' = IF ShortCircuited(t) THEN last_compared ELSE arg[t]
    /\ UNCHANGED <<config, fields, now, statusLocals, transitions, baseline_origin>>

\* the end of the with block of line 199: the lock is released and the tuple returned
CheckMotionExit(t) ==
    /\ ReleaseAndReturn(t, "idle")
    /\ UNCHANGED outside

\* -------------------------------------------------------------- get_status
\* line 258: a thread calls get_status
GetStatusCall(t) ==
    /\ pc[t] = "idle"
    /\ Goto(t, "l265")
    /\ UNCHANGED <<outside, config, fields, state_lock, now, checkLocals, statusLocals, history>>

\* mutant of L265: get_status reads without taking the lock
L265NoLock(t) ==
    /\ pc[t] = "l265"
    /\ Goto(t, "l267")
    /\ UNCHANGED <<outside, config, fields, state_lock, now, checkLocals, statusLocals, history>>

\* line 265: with self.state_lock
L265(t) ==
    /\ pc[t] = "l265"
    /\ LockAvailable
    /\ state_lock' = t
    /\ Goto(t, "l267")
    /\ UNCHANGED <<outside, config, fields, now, checkLocals, statusLocals, history>>

\* lines 267-268: the dict display reads the attributes one after the other
L267(t) ==
    /\ pc[t] = "l267"
    /\ res' = [res EXCEPT ![t].state = state,
                          ![t].motion_event_count = motion_event_count]
    /\ Goto(t, "l269")
    /\ UNCHANGED <<outside, config, fields, state_lock, now, checkLocals, act, history>>

\* lines 269-272
L269(t) ==
    /\ pc[t] = "l269"
    /\ res' = [res EXCEPT ![t].last_motion_time = last_motion_time,
                          ![t].last_change_percentage = last_change_percentage,
                          ![t].threshold = threshold,
                          ![t].cooldown_seconds = cooldown_seconds]
    /\ Goto(t, "l273")
    /\ UNCHANGED <<outside, config, fields, state_lock, now, checkLocals, act, history>>

\* line 273: the end of the with block; the dict is returned
GetStatusExit(t) ==
    /\ pc[t] = "l273"
    /\ state_lock' = Free
    /\ res' = [res EXCEPT ![t] = NoStatus]
    /\ Goto(t, "idle")
    /\ UNCHANGED <<outside, config, fields, now, checkLocals, act, history>>

\* -------------------------------------------------------- is_motion_active
\* line 275: a thread calls is_motion_active
IsMotionActiveCall(t) ==
    /\ pc[t] = "idle"
    /\ Goto(t, "l277")
    /\ UNCHANGED <<outside, config, fields, state_lock, now, checkLocals, statusLocals, history>>

\* line 277: with self.state_lock
L277(t) ==
    /\ pc[t] = "l277"
    /\ LockAvailable
    /\ state_lock' = t
    /\ Goto(t, "l278")
    /\ UNCHANGED <<outside, config, fields, now, checkLocals, statusLocals, history>>

\* mutant of L278: every state but Idle counts as active
L278NotIdle(t) ==
    /\ pc[t] = "l278"
    /\ act' = [act EXCEPT ![t] = (state # STATE_IDLE)]
    /\ Goto(t, "l278r")
    /\ UNCHANGED <<outside, config, fields, state_lock, now, checkLocals, res, history>>

\* line 278: the comparison is evaluated
L278(t) ==
    /\ pc[t] = "l278"
    /\ act' = [act EXCEPT ![t] = (state = STATE_MOTION_DETECTED)]
    /\ Goto(t, "l278r")
    /\ UNCHANGED <<outside, config, fields, state_lock, now, checkLocals, res, history>>

\* line 278: the end of the with block; the boolean is returned
IsMotionActiveExit(t) ==
    /\ pc[t] = "l278r"
    /\ state_lock' = Free
    /\ act' = [act EXCEPT ![t] = FALSE]
    /\ Goto(t, "idle")
    /\ UNCHANGED <<outside, config, fields, now, checkLocals, res, history>>

\* ----------------------------------------------------------- specification
CheckStep(t) ==
    \/ CheckMotionCall(t) \/ CheckMotionNone(t) \/ ReturnNone(t)
    \/ L199(t) \/ L201(t) \/ L203(t) \/ L210(t) \/ L217(t) \/ L221(t)
    \/ L224(t) \/ L227(t) \/ L228(t) \/ L237(t) \/ L239(t) \/ L242(t)
    \/ CheckMotionExit(t)

StatusStep(t) ==
    \/ GetStatusCall(t) \/ L265(t) \/ L267(t) \/ L269(t) \/ GetStatusExit(t)
    \/ IsMotionActiveCall(t) \/ L277(t) \/ L278(t) \/ IsMotionActiveExit(t)

Next ==
    \/ Tick
    \/ \E t \in CheckThreads : CheckStep(t)
    \/ \E t \in StatusThreads : StatusStep(t)

Spec == Init /\ [][Next]_vars

\* the steps a thread takes by itself once it is inside a call, and the lock
\* acquisitions: a running thread keeps running, and a thread blocked on
\* state_lock gets it if it is free again and again
Running(t) ==
    \/ ReturnNone(t) \/ L201(t) \/ L203(t) \/ L210(t) \/ L217(t) \/ L221(t)
    \/ L224(t) \/ L227(t) \/ L228(t) \/ L237(t) \/ L239(t) \/ L242(t)
    \/ CheckMotionExit(t)
    \/ L267(t) \/ L269(t) \/ GetStatusExit(t) \/ L278(t) \/ IsMotionActiveExit(t)

Acquire(t) == L199(t) \/ L265(t) \/ L277(t)

Fairness == \A t \in Threads : WF_vars(Running(t)) /\ SF_vars(Acquire(t))

\* the specification of the liveness claims: one configuration, a scene that
\* alternates between two frames, and the fairness above
LiveFrames == {Black, White}

LiveInit == Init /\ threshold = 50 /\ cooldown_seconds = 2

\* line 199 with the frame taken from the live scene
L199Live(t) == L199(t) /\ arg'[t] \in LiveFrames

LiveCheckStep(t) ==
    \/ CheckMotionCall(t) \/ CheckMotionNone(t) \/ ReturnNone(t)
    \/ L199Live(t) \/ L201(t) \/ L203(t) \/ L210(t) \/ L217(t) \/ L221(t)
    \/ L224(t) \/ L227(t) \/ L228(t) \/ L237(t) \/ L239(t) \/ L242(t)
    \/ CheckMotionExit(t)

LiveNext ==
    \/ Tick
    \/ \E t \in CheckThreads : LiveCheckStep(t)
    \/ \E t \in StatusThreads : StatusStep(t)

FairSpec == LiveInit /\ [][LiveNext]_vars /\ Fairness

\* the detector in front of a scene whose frames differ by small amounts:
\* by less than the default pixel threshold, and by more than it but less
\* than the thresholds a detector is configured with
PixelFrames == {Black, Dim, Gray20}

L199Pixel(t) == L199From(t, PixelFrames)

PixelCheckStep(t) ==
    \/ CheckMotionCall(t) \/ CheckMotionNone(t) \/ ReturnNone(t)
    \/ L199Pixel(t) \/ L201(t) \/ L203(t) \/ L210(t) \/ L217(t) \/ L221(t)
    \/ L224(t) \/ L227(t) \/ L228(t) \/ L237(t) \/ L239(t) \/ L242(t)
    \/ CheckMotionExit(t)

PixelNext ==
    \/ Tick
    \/ \E t \in CheckThreads : PixelCheckStep(t)

PixelSpec == Init /\ [][PixelNext]_vars

\* -------------------------------------------------------------------- main
\* the command lines main may be started with (argparse: two floats, an int)
ArgThresholds == {-1, 0, 5, 100, 101}
ArgCooldowns == {-1, 0, 5}
ArgSnapshotLimits == {-1, 0, 2}
ArgsSet == [motion_detect : BOOLEAN, motion_threshold : ArgThresholds,
            motion_cooldown : ArgCooldowns, motion_snapshot : BOOLEAN,
            motion_snapshot_limit : ArgSnapshotLimits]

\* motion_detector = None: there is no instance, its fields do not exist
NoInstance ==
    /\ threshold = -1
    /\ cooldown_seconds = -1
    /\ state = "none"
    /\ state_lock = Free
    /\ motion_event_count = 0
    /\ last_motion_time = NoTime
    /\ last_change_percentage = 0
    /\ previous_frame = NoFrame
    /\ baseline_frame = NoFrame

\* main has parsed its arguments and reaches line 727
MainInit ==
    /\ args \in ArgsSet
    /\ MOTION_DETECTION_AVAILABLE \in BOOLEAN
    /\ motion_detector = "None"
    /\ main_pc = "l727"
    /\ NoInstance
    /\ NoCalls
    /\ committed = NoSnapshot
    /\ transitions = 0
    /\ NoBaselineHistory
    /\ NoCallHistory
    /\ CompareIdle
    /\ SnapshotDefaults
    /\ HttpIdle

mainRest == <<state_lock, now, pc, checkLocals, statusLocals, history,
              compareVars, httpVars, monitorVars, serveVars, streamVars,
              args, MOTION_DETECTION_AVAILABLE>>

\* if args.motion_detect:
Main727 ==
    /\ main_pc = "l727"
    /\ main_pc' = IF args.motion_detect THEN "l729" ELSE "l760"
    /\ UNCHANGED <<config, fields, motion_detector, snapshotVars, mainRest>>

\* if not MOTION_DETECTION_AVAILABLE: sys.exit(1)
Main729 ==
    /\ main_pc = "l729"
    /\ main_pc' = IF ~MOTION_DETECTION_AVAILABLE THEN "exit1" ELSE "l736"
    /\ UNCHANGED <<config, fields, motion_detector, snapshotVars, mainRest>>

\* if not 0 <= args.motion_threshold <= 100: sys.exit(1)
Main736 ==
    /\ main_pc = "l736"
    /\ main_pc' = IF ~(0 <= args.motion_threshold /\ args.motion_threshold <= 100)
                  THEN "exit1" ELSE "l740"
    /\ UNCHANGED <<config, fields, motion_detector, snapshotVars, mainRest>>

\* MotionDetector.__init__(threshold, cooldown_seconds): nothing is validated
MotionDetectorInit(thr, cd) ==
    /\ threshold' = thr
    /\ cooldown_seconds' = cd
    /\ state' = STATE_IDLE
    /\ motion_event_count' = 0
    /\ last_motion_time' = NoTime
    /\ last_change_percentage' = 0
    /\ previous_frame' = NoFrame
    /\ baseline_frame' = NoFrame

\* motion_detector = MotionDetector(threshold=..., cooldown_seconds=...)
Main740 ==
    /\ main_pc = "l740"
    /\ MotionDetectorInit(args.motion_threshold, args.motion_cooldown)
    /\ motion_detector' = "detector"
    /\ main_pc' = "l747"
    /\ UNCHANGED <<snapshotVars, mainRest>>

\* if args.motion_snapshot: validate the limit, set the snapshot globals
Main747 ==
    /\ main_pc = "l747"
    /\ IF ~args.motion_snapshot
       THEN /\ main_pc' = "l760"
            /\ UNCHANGED <<MOTION_SNAPSHOT_ENABLED, MOTION_SNAPSHOT_LIMIT>>
       ELSE IF args.motion_snapshot_limit < 0
       THEN /\ main_pc' = "exit1"
            /\ UNCHANGED <<MOTION_SNAPSHOT_ENABLED, MOTION_SNAPSHOT_LIMIT>>
       ELSE /\ main_pc' = "l760"
            /\ MOTION_SNAPSHOT_ENABLED' = TRUE
            /\ MOTION_SNAPSHOT_LIMIT' = args.motion_snapshot_limit
    /\ UNCHANGED <<config, fields, motion_detector, snapshot_history, saved, mainRest>>

MainNext == Main727 \/ Main729 \/ Main736 \/ Main740 \/ Main747

MainSpec == MainInit /\ [][MainNext]_vars

\* ---------------------------------------------------- save_motion_snapshot
\* the frames the monitoring loop may hand to save_motion_snapshot
SnapshotFrames == {NoFrame, Black, White}

\* mutant of LastN: the oldest entries are kept (lst[:n])
FirstN(lst, n) == IF n >= Len(lst) THEN lst ELSE SubSeq(lst, 1, n)

\* lst[-n:], for n > 0
LastN(lst, n) == IF n >= Len(lst) THEN lst ELSE SubSeq(lst, Len(lst) - n + 1, Len(lst))

\* lines 132-145: what save_motion_snapshot does to the history
AppendSnapshot(frame_bytes) ==
    IF ~MOTION_SNAPSHOT_ENABLED \/ frame_bytes = NoFrame
    THEN UNCHANGED <<snapshot_history, saved>>
    ELSE LET timestamp == now
             appended == Append(snapshot_history, <<timestamp, frame_bytes>>)
         IN  /\ snapshot_history' =
                  IF MOTION_SNAPSHOT_LIMIT > 0 /\ Len(appended) > MOTION_SNAPSHOT_LIMIT
                  THEN LastN(appended, MOTION_SNAPSHOT_LIMIT)
                  ELSE appended
             /\ saved' = Append(saved, <<timestamp, frame_bytes>>)

\* save_motion_snapshot(frame_bytes), called once the server is running
save_motion_snapshot(frame_bytes) ==
    /\ main_pc = "l760"
    /\ Len(saved) < MaxSaves
    /\ AppendSnapshot(frame_bytes)
    /\ UNCHANGED <<config, fields, state_lock, now, pc, checkLocals, statusLocals,
                   history, compareVars, mainVars, httpVars, monitorVars,
                   serveVars, streamVars,
                   MOTION_SNAPSHOT_ENABLED, MOTION_SNAPSHOT_LIMIT>>

SaveMotionSnapshot == \E f \in SnapshotFrames : save_motion_snapshot(f)

SnapshotNext == MainNext \/ SaveMotionSnapshot \/ Tick

\* main configures the snapshots, then snapshots are saved as time passes
SnapshotSpec == MainInit /\ [][SnapshotNext]_vars

\* --------------------------------------------------------- monitoring_loop
\* the thread that runs monitoring_loop: the only caller of check_motion
Monitor == "c1"

\* what streaming_output.frame may hold when the condition is notified
StreamFrames == {NoFrame, Black, White, Half}

\* main has started the monitoring thread with snapshots configured
MonitorInit ==
    /\ DetectorInit
    /\ CompareIdle
    /\ MainDone
    /\ HttpIdle
    /\ MOTION_SNAPSHOT_ENABLED \in BOOLEAN
    /\ MOTION_SNAPSHOT_LIMIT \in {0, 2}
    /\ snapshot_history = <<>>
    /\ saved = <<>>

\* lines 291-302: a frame arrives; None is skipped (line 296), any other
\* frame becomes current_frame; lines 306-307: check_motion is called
MonitorFrame ==
    /\ pc[Monitor] = "idle"
    /\ motion_event_count < MaxEvents
    /\ Len(saved) < MaxSaves
    /\ \E f \in StreamFrames :
          /\ stream_frame' = f
          /\ IF f = NoFrame
             THEN UNCHANGED <<current_frame, pc>>
             ELSE /\ current_frame' = f
                  /\ Goto(Monitor, IF motion_detector # "None" THEN "l199" ELSE "idle")
    /\ UNCHANGED <<config, fields, state_lock, now, checkLocals, statusLocals, history,
                   compareVars, snapshotVars, mainVars, AUTH_ENABLED, AUTH_USER, AUTH_PASS,
                   request, response, motion_detected, change_pct, serveVars, streamVars>>

\* line 199 inside the call of line 307: the frame is the one of the loop
L199Monitor == L199From(Monitor, {stream_frame})

\* line 307: motion_detected, change_pct = motion_detector.check_motion(frame_bytes)
Monitor307 ==
    /\ ReleaseAndReturn(Monitor, "l310")
    /\ motion_detected' = ret[Monitor].motion
    /\ change_pct' = ret[Monitor].pct
    /\ UNCHANGED <<compareVars, snapshotVars, mainVars, httpVars, stream_frame,
                   serveVars, streamVars>>

\* lines 310-316: on motion_detected the status is read for the log line
\* (get_status takes and releases state_lock) and, if snapshots are
\* enabled, the frame is saved
Monitor310 ==
    /\ pc[Monitor] = "l310"
    /\ motion_detected
    /\ LockAvailable
    /\ IF MOTION_SNAPSHOT_ENABLED
       THEN AppendSnapshot(stream_frame)
       ELSE UNCHANGED <<snapshot_history, saved>>
    /\ Goto(Monitor, "idle")
    /\ UNCHANGED <<config, fields, state_lock, now, checkLocals, statusLocals, history,
                   compareVars, mainVars, httpVars, monitorVars, serveVars, streamVars,
                   MOTION_SNAPSHOT_ENABLED, MOTION_SNAPSHOT_LIMIT>>

\* lines 317-321: otherwise the status is read and the end of motion logged
Monitor317 ==
    /\ pc[Monitor] = "l310"
    /\ ~motion_detected
    /\ LockAvailable
    /\ Goto(Monitor, "idle")
    /\ UNCHANGED <<config, fields, state_lock, now, checkLocals, statusLocals, history,
                   outside>>

MonitorStep ==
    \/ MonitorFrame \/ L199Monitor
    \/ L201(Monitor) \/ L203(Monitor) \/ L210(Monitor) \/ L217(Monitor) \/ L221(Monitor)
    \/ L224(Monitor) \/ L227(Monitor) \/ L228(Monitor) \/ L237(Monitor) \/ L239(Monitor)
    \/ L242(Monitor)
    \/ Monitor307 \/ Monitor310 \/ Monitor317

MonitorNext == Tick \/ MonitorStep

\* the monitoring loop feeding the detector and the snapshot history
MonitorSpec == MonitorInit /\ [][MonitorNext]_vars

\* ------------------------------------------- compare_frames, called alone
Outcome(a, v) == [at |-> a, value |-> v]

\* compare_frames(f1, f2, thr) is entered
CompareEnter(f1, f2, thr) ==
    /\ frame1_bytes = f1
    /\ frame2_bytes = f2
    /\ pixel_threshold = thr
    /\ outcome = Outcome("l89", 0)

CompareInit ==
    /\ \E f1 \in CompareFrames, f2 \in CompareFrames, thr \in PixelThresholds :
            CompareEnter(f1, f2, thr)
    /\ DetectorInit
    /\ threshold = 50
    /\ cooldown_seconds = 2
    /\ SnapshotDefaults
    /\ MainDone
    /\ HttpIdle

compareRest == <<config, fields, state_lock, now, pc, checkLocals, statusLocals,
                 history, snapshotVars, mainVars, httpVars, monitorVars,
                 serveVars, streamVars>>

\* if frame1_bytes is None or frame2_bytes is None: return 0.0
CompareL89 ==
    /\ outcome.at = "l89"
    /\ outcome' = IF frame1_bytes = NoFrame \/ frame2_bytes = NoFrame
                  THEN Outcome("returned", 0)
                  ELSE Outcome("try", 0)
    /\ UNCHANGED <<frame1_bytes, frame2_bytes, pixel_threshold, compareRest>>

\* the try block: decode, subtract, count, divide, return percentage
CompareTry ==
    /\ outcome.at = "try"
    /\ outcome' = IF TryRaises(frame1_bytes, frame2_bytes)
                  THEN Outcome("except", 0)
                  ELSE Outcome("returned",
                               Percentage(frame1_bytes, frame2_bytes, pixel_threshold))
    /\ UNCHANGED <<frame1_bytes, frame2_bytes, pixel_threshold, compareRest>>

\* mutant of CompareExcept: the exception propagates to the caller
CompareExceptPropagates ==
    /\ outcome.at = "except"
    /\ outcome' = Outcome("raised", 0)
    /\ UNCHANGED <<frame1_bytes, frame2_bytes, pixel_threshold, compareRest>>

\* except Exception: log, return 0.0
CompareExcept ==
    /\ outcome.at = "except"
    /\ outcome' = Outcome("returned", 0)
    /\ UNCHANGED <<frame1_bytes, frame2_bytes, pixel_threshold, compareRest>>

\* the next call, with other arguments
CompareCall ==
    /\ outcome.at \in {"returned", "raised"}
    /\ \E f1 \in CompareFrames, f2 \in CompareFrames, thr \in PixelThresholds :
            /\ frame1_bytes' = f1
            /\ frame2_bytes' = f2
            /\ pixel_threshold' = thr
    /\ outcome' = Outcome("l89", 0)
    /\ UNCHANGED compareRest

CompareNext == CompareL89 \/ CompareTry \/ CompareExcept \/ CompareCall

CompareSpec == CompareInit /\ [][CompareNext]_vars

\* ------------------------------------------------------------------- do_GET
\* index of the first occurrence of tok in seq, 0 when there is none
FirstIndex(seq, tok) ==
    IF \E i \in 1 .. Len(seq) : seq[i] = tok
    THEN CHOOSE i \in 1 .. Len(seq) :
            seq[i] = tok /\ \A j \in 1 .. i - 1 : seq[j] # tok
    ELSE 0

\* text.split(tok)[0]
BeforeFirst(seq, tok) ==
    IF FirstIndex(seq, tok) = 0 THEN seq ELSE SubSeq(seq, 1, FirstIndex(seq, tok) - 1)

\* text.split(tok, 1)[1], when tok occurs
AfterFirst(seq, tok) == SubSeq(seq, FirstIndex(seq, tok) + 1, Len(seq))

\* filename = (self.path[1:]).split("?")[0]
Filename(path) == BeforeFirst(Tail(path), "?")

\* str.lower on the scheme words that occur
Lower(word) ==
    CASE word = "Basic" -> "basic"
      [] word = "BASIC" -> "basic"
      [] word = "Bearer" -> "bearer"
      [] OTHER -> word

\* mutant of check_auth: only the username is verified
check_auth_user_only(header) ==
    IF ~AUTH_ENABLED THEN TRUE
    ELSE IF ~header.present THEN FALSE
    ELSE IF ~header.space THEN FALSE
    ELSE IF Lower(header.scheme) # "basic" THEN FALSE
    ELSE IF ~header.decodes THEN FALSE
    ELSE IF FirstIndex(header.text, ":") = 0 THEN FALSE
    ELSE BeforeFirst(header.text, ":") = AUTH_USER

\* SimpleCloudFileServer.check_auth; every exception of the try block
\* (unpacking a split without separator, base64 or UTF-8 decoding) is False
check_auth(header) ==
    IF ~AUTH_ENABLED THEN TRUE
    ELSE IF ~header.present THEN FALSE
    ELSE IF ~header.space THEN FALSE
    ELSE IF Lower(header.scheme) # "basic" THEN FALSE
    ELSE IF ~header.decodes THEN FALSE
    ELSE IF FirstIndex(header.text, ":") = 0 THEN FALSE
    ELSE /\ BeforeFirst(header.text, ":") = AUTH_USER
         /\ AfterFirst(header.text, ":") = AUTH_PASS

\* the working directory of the server and the files that exist
CurrentDir == <<"srv">>
ExistingFiles == {<<"srv", "webcam.html">>, <<"srv2", "secret">>}

\* os.path.abspath: the segments of the path, "." and "" dropped, ".." popping
RECURSIVE Normalise(_, _)
Normalise(stack, toks) ==
    IF toks = <<>> THEN stack
    ELSE IF Head(toks) = "/" \/ Head(toks) = "." THEN Normalise(stack, Tail(toks))
    ELSE IF Head(toks) = ".."
         THEN Normalise(IF stack = <<>> THEN stack
                        ELSE SubSeq(stack, 1, Len(stack) - 1), Tail(toks))
    ELSE Normalise(Append(stack, Head(toks)), Tail(toks))

abspath(filename) ==
    IF filename # <<>> /\ Head(filename) = "/"
    THEN Normalise(<<>>, filename)
    ELSE Normalise(CurrentDir, filename)

\* one directory name is a string prefix of the other
NamePrefix(p, name) == name = p \/ (p = "srv" /\ name = "srv2")

\* requested_path.startswith(current_dir), a comparison of strings
StartsWithCurrentDir(resolved) ==
    /\ resolved # <<>>
    /\ NamePrefix(CurrentDir[1], resolved[1])

\* lines 570-591: other file requests
ServeFile(filename) ==
    IF ~StartsWithCurrentDir(abspath(filename)) THEN Response(403, "forbidden", FALSE)
    ELSE IF abspath(filename) \in ExistingFiles THEN Response(200, "file", FALSE)
    ELSE Response(404, "not_found", FALSE)

\* mutant of ServeCurrentFrame: 200 is sent whether or not a frame is stored
ServeCurrentFrameUnchecked ==
    [Response(200, "frame", FALSE) EXCEPT !.content = current_frame]

\* lines 451-459, under frame_lock: the stored frame, or 503 while there is none
ServeCurrentFrame ==
    IF current_frame # NoFrame
    THEN [Response(200, "frame", FALSE) EXCEPT !.content = current_frame]
    ELSE Response(503, "initializing", FALSE)

\* lines 423-591: the response of a request that passed the gate
Route(filename) ==
    IF filename = <<"stream">> THEN Response(200, "stream", FALSE)
    ELSE IF filename = <<"webcam.jpg">> THEN ServeCurrentFrame
    ELSE IF filename = <<"health">> THEN Response(200, "health", FALSE)
    ELSE IF filename = <<"motion", "/", "status">>
         THEN IF motion_detector = "None" THEN Response(404, "not_enabled_json", FALSE)
              ELSE Response(200, "status", FALSE)
    ELSE IF filename = <<"motion", "/", "snapshot">>
         THEN IF motion_detector = "None" THEN Response(404, "not_enabled", FALSE)
              ELSE IF ~MOTION_SNAPSHOT_ENABLED \/ snapshot_history = <<>>
              THEN Response(404, "no_snapshot", FALSE)
              ELSE Response(200, "snapshot", FALSE)
    ELSE ServeFile(filename)

\* the requests a client may send
Paths == {<<"/", "health">>, <<"/", "health", "?", "t">>, <<"/", "health", "/">>,
          <<"/", "webcam.jpg">>, <<"/", "webcam.jpg", "?", "health">>,
          <<"/", "stream">>, <<"/", "motion", "/", "status">>,
          <<"/", "motion", "/", "snapshot">>, <<"/", "webcam.html">>,
          <<"/", "missing">>, <<"/">>, <<"/", "..", "/", "srv2", "/", "secret">>,
          <<"/", "..", "/", "etc">>}
Headers == {NoHeader,
            Header("Basic", FALSE, FALSE, <<>>),
            Header("Basic", TRUE, FALSE, <<>>),
            Header("Basic", TRUE, TRUE, <<"user", "pass">>),
            Header("Basic", TRUE, TRUE, <<"user", ":", "pass">>),
            Header("basic", TRUE, TRUE, <<"user", ":", "pass">>),
            Header("BASIC", TRUE, TRUE, <<"user", ":", "pa", ":", "ss">>),
            Header("Bearer", TRUE, TRUE, <<"user", ":", "pass">>),
            Header("Basic", TRUE, TRUE, <<"user", ":", "wrong">>),
            Header("Basic", TRUE, TRUE, <<"other", ":", "pass">>),
            Header("Basic", TRUE, TRUE, <<"user", ":">>)}

\* main, lines 717-719: the credentials come from the environment (<<>> is
\* unset); authentication is on only if both are set and --no-auth is absent
HttpInit ==
    /\ AUTH_USER \in {<<>>, <<"user">>}
    /\ AUTH_PASS \in {<<>>, <<"pass">>, <<"pa", ":", "ss">>}
    /\ AUTH_ENABLED \in {FALSE, AUTH_USER # <<>> /\ AUTH_PASS # <<>>}
    /\ current_frame = NoFrame
    /\ request = NoRequest
    /\ response = NoResponse
    /\ \/ /\ motion_detector = "detector"
          /\ DetectorInit
          /\ threshold = 50
          /\ cooldown_seconds = 2
       \/ /\ motion_detector = "None"
          /\ NoInstance
          /\ NoCalls
          /\ committed = NoSnapshot
          /\ transitions = 0
          /\ NoBaselineHistory
          /\ NoCallHistory
    /\ args = NoArgs
    /\ MOTION_DETECTION_AVAILABLE = TRUE
    /\ main_pc = "serving"
    /\ CompareIdle
    /\ SnapshotDefaults

httpRest == <<config, fields, state_lock, now, pc, checkLocals, statusLocals,
              history, compareVars, snapshotVars, mainVars, monitorVars,
              serveVars, streamVars,
              AUTH_ENABLED, AUTH_USER, AUTH_PASS>>

\* monitoring_loop, lines 300-302: current_frame = frame_bytes
StoreFrame ==
    /\ \E f \in {Black, White} : current_frame' = f
    /\ UNCHANGED <<request, response, httpRest>>

\* a GET request arrives: do_GET is entered
DoGetCall ==
    /\ request.at \in {"none", "done"}
    /\ \E p \in Paths, h \in Headers :
            request' = [path |-> p, header |-> h, at |-> "l418"]
    /\ response' = NoResponse
    /\ UNCHANGED <<current_frame, httpRest>>

\* if filename != "health":
DoGet418 ==
    /\ request.at = "l418"
    /\ request' = [request EXCEPT !.at =
                        IF Filename(request.path) # <<"health">> THEN "l419"
                        ELSE "route"]
    /\ UNCHANGED <<current_frame, response, httpRest>>

\* if not self.check_auth(): self.send_auth_required(); return
DoGet419 ==
    /\ request.at = "l419"
    /\ IF ~check_auth(request.header)
       THEN /\ response' = Response(401, "unauthorized", TRUE)
            /\ request' = [request EXCEPT !.at = "done"]
       ELSE /\ request' = [request EXCEPT !.at = "route"]
            /\ UNCHANGED response
    /\ UNCHANGED <<current_frame, httpRest>>

\* the endpoint is served
DoGetRoute ==
    /\ request.at = "route"
    /\ response' = Route(Filename(request.path))
    /\ request' = [request EXCEPT !.at = "done"]
    /\ UNCHANGED <<current_frame, httpRest>>

HttpNext == StoreFrame \/ DoGetCall \/ DoGet418 \/ DoGet419 \/ DoGetRoute

HttpSpec == HttpInit /\ [][HttpNext]_vars

\* ------------------------------------- the motion endpoints and the monitor
\* the thread that runs do_GET for a motion endpoint
Handler == "s1"

\* the filenames of do_GET that read the detector or the snapshot history
Endpoints == {"health", "motion/status", "motion/snapshot"}

\* the frames of the scene in front of the served camera
ServeFrames == {Black, White, Half}

\* main has started the monitoring thread and the server: a detector with
\* its snapshots configured, or no detector at all (no --motion-detect)
ServeInit ==
    /\ CompareIdle
    /\ HttpIdle
    /\ args = NoArgs
    /\ MOTION_DETECTION_AVAILABLE = TRUE
    /\ main_pc = "serving"
    /\ snapshot_history = <<>>
    /\ saved = <<>>
    /\ \/ /\ motion_detector = "detector"
          /\ DetectorInit
          /\ threshold = 50
          /\ cooldown_seconds = 0
          /\ MOTION_SNAPSHOT_ENABLED \in BOOLEAN
          /\ MOTION_SNAPSHOT_LIMIT \in {0, 1}
       \/ /\ motion_detector = "None"
          /\ NoInstance
          /\ NoCalls
          /\ committed = NoSnapshot
          /\ transitions = 0
          /\ NoBaselineHistory
          /\ NoCallHistory
          /\ MOTION_SNAPSHOT_ENABLED = FALSE
          /\ MOTION_SNAPSHOT_LIMIT = 0

\* what no step of the monitor after check_motion and no step of a handler
\* of a motion endpoint touches
serveRest == <<config, fields, now, checkLocals, history, compareVars, mainVars,
               monitorVars, streamVars, AUTH_ENABLED, AUTH_USER, AUTH_PASS,
               current_frame, request, MOTION_SNAPSHOT_ENABLED, MOTION_SNAPSHOT_LIMIT>>

\* lines 291-307 in front of the served scene
ServeFrame ==
    /\ Len(saved) < MaxServed
    /\ MonitorFrame
    /\ stream_frame' \in ServeFrames

\* lines 311 and 319: status = motion_detector.get_status() takes state_lock
\* (line 265); the dict is only used for the log line
MonitorGetStatus ==
    /\ pc[Monitor] = "l310"
    /\ LockAvailable
    /\ state_lock' = Monitor
    /\ Goto(Monitor, "l311")
    /\ UNCHANGED <<serveRest, statusLocals, snapshot_history, saved, serveVars, response>>

\* mutant of MonitorGetStatusExit: the loop keeps state_lock while it saves
MonitorGetStatusKeepsLock ==
    /\ pc[Monitor] = "l311"
    /\ state_lock' = IF motion_detected /\ MOTION_SNAPSHOT_ENABLED THEN state_lock ELSE Free
    /\ Goto(Monitor, IF motion_detected /\ MOTION_SNAPSHOT_ENABLED THEN "l141" ELSE "idle")
    /\ UNCHANGED <<serveRest, statusLocals, snapshot_history, saved, serveVars, response>>

\* get_status returns (line 273) and state_lock is free again; lines 315-316:
\* with motion_detected and snapshots enabled save_motion_snapshot is
\* called (lines 132-133 let it go on: the frame is not None)
MonitorGetStatusExit ==
    /\ pc[Monitor] = "l311"
    /\ state_lock' = Free
    /\ Goto(Monitor, IF motion_detected /\ MOTION_SNAPSHOT_ENABLED THEN "l141" ELSE "idle")
    /\ UNCHANGED <<serveRest, statusLocals, snapshot_history, saved, serveVars, response>>

\* mutant of SnapshotLockAvailable: snapshot_lock excludes nobody
SnapshotLockIgnored == TRUE

\* with snapshot_lock: entry
SnapshotLockAvailable == snapshot_lock = Free

\* line 141: with snapshot_lock
Save141 ==
    /\ pc[Monitor] = "l141"
    /\ SnapshotLockAvailable
    /\ snapshot_lock' = Monitor
    /\ Goto(Monitor, "l142")
    /\ UNCHANGED <<serveRest, state_lock, statusLocals, snapshot_history, saved, endpoint,
                   snapshot_count, latest_snapshot, motion_status, response>>

\* line 142: snapshot_history.append((timestamp, frame_bytes))
Save142 ==
    /\ pc[Monitor] = "l142"
    /\ snapshot_history' = Append(snapshot_history, <<now, stream_frame>>)
    /\ saved' = Append(saved, <<now, stream_frame>>)
    /\ Goto(Monitor, "l145")
    /\ UNCHANGED <<serveRest, state_lock, statusLocals, serveVars, response>>

\* lines 145-147: the oldest entries are dropped beyond the limit
Save145 ==
    /\ pc[Monitor] = "l145"
    /\ snapshot_history' =
            IF MOTION_SNAPSHOT_LIMIT > 0 /\ Len(snapshot_history) > MOTION_SNAPSHOT_LIMIT
            THEN LastN(snapshot_history, MOTION_SNAPSHOT_LIMIT)
            ELSE snapshot_history
    /\ Goto(Monitor, "l149")
    /\ UNCHANGED <<serveRest, state_lock, statusLocals, saved, serveVars, response>>

\* the end of the with block of line 141
Save149 ==
    /\ pc[Monitor] = "l149"
    /\ snapshot_lock' = Free
    /\ Goto(Monitor, "idle")
    /\ UNCHANGED <<serveRest, state_lock, statusLocals, snapshot_history, saved, endpoint,
                   snapshot_count, latest_snapshot, motion_status, response>>

\* do_GET is entered for a motion endpoint (the gate of lines 418-421 is
\* passed); lines 487, 509 and 548: without a detector the answer is given
\* at once
ServeCall ==
    /\ pc[Handler] \in {"idle", "sent"}
    /\ \E e \in Endpoints :
        /\ endpoint' = e
        /\ IF motion_detector = "None"
           THEN /\ response' = Route(IF e = "health" THEN <<"health">>
                                     ELSE IF e = "motion/status"
                                          THEN <<"motion", "/", "status">>
                                          ELSE <<"motion", "/", "snapshot">>)
                /\ Goto(Handler, "sent")
           ELSE /\ response' = NoResponse
                /\ Goto(Handler, IF e = "motion/snapshot" THEN "l554" ELSE "l265")
    /\ motion_status' = NoMotionStatus
    /\ snapshot_count' = 0
    /\ latest_snapshot' = NoFrame
    /\ UNCHANGED <<serveRest, state_lock, statusLocals, snapshot_history, saved, snapshot_lock>>

\* lines 488 and 514: status = motion_detector.get_status() has returned
ServeStatusReturn ==
    /\ pc[Handler] = "l273"
    /\ state_lock' = Free
    /\ Goto(Handler, IF endpoint = "health" THEN "l277" ELSE "l517")
    /\ UNCHANGED <<serveRest, statusLocals, snapshot_history, saved, serveVars, response>>

\* line 517: with snapshot_lock
Serve517 ==
    /\ pc[Handler] = "l517"
    /\ SnapshotLockAvailable
    /\ snapshot_lock' = Handler
    /\ Goto(Handler, "l518")
    /\ UNCHANGED <<serveRest, state_lock, statusLocals, snapshot_history, saved, endpoint,
                   snapshot_count, latest_snapshot, motion_status, response>>

\* lines 518-519 and the end of the with block
Serve518 ==
    /\ pc[Handler] = "l518"
    /\ snapshot_count' = Len(snapshot_history)
    /\ snapshot_lock' = Free
    /\ Goto(Handler, "l277")
    /\ UNCHANGED <<serveRest, state_lock, statusLocals, snapshot_history, saved, endpoint,
                   latest_snapshot, motion_status, response>>

\* lines 491 and 525: is_motion_active() has returned; the JSON is built
\* from the dict of get_status and this boolean, and sent
ServeActiveReturn ==
    /\ pc[Handler] = "l278r"
    /\ state_lock' = Free
    /\ motion_status' = MotionStatus(res[Handler].state, act[Handler],
                                     res[Handler].motion_event_count)
    /\ response' = Response(200, IF endpoint = "health" THEN "health" ELSE "status", FALSE)
    /\ Goto(Handler, "sent")
    /\ UNCHANGED <<serveRest, statusLocals, snapshot_history, saved, snapshot_lock, endpoint,
                   snapshot_count, latest_snapshot>>

\* line 554: with snapshot_lock
Serve554 ==
    /\ pc[Handler] = "l554"
    /\ SnapshotLockAvailable
    /\ snapshot_lock' = Handler
    /\ Goto(Handler, "l555")
    /\ UNCHANGED <<serveRest, state_lock, statusLocals, snapshot_history, saved, endpoint,
                   snapshot_count, latest_snapshot, motion_status, response>>

\* lines 555-558: latest_snapshot = snapshot_history[-1][1], or None
Serve555 ==
    /\ pc[Handler] = "l555"
    /\ latest_snapshot' = IF snapshot_history # <<>>
                          THEN snapshot_history[Len(snapshot_history)][2]
                          ELSE NoFrame
    /\ Goto(Handler, "l559")
    /\ UNCHANGED <<serveRest, state_lock, statusLocals, snapshot_history, saved, snapshot_lock,
                   endpoint, snapshot_count, motion_status, response>>

\* the end of the with block of line 554
Serve559 ==
    /\ pc[Handler] = "l559"
    /\ snapshot_lock' = Free
    /\ Goto(Handler, "l560")
    /\ UNCHANGED <<serveRest, state_lock, statusLocals, snapshot_history, saved, endpoint,
                   snapshot_count, latest_snapshot, motion_status, response>>

\* lines 560-568: 404 without a snapshot, the bytes read otherwise
Serve560 ==
    /\ pc[Handler] = "l560"
    /\ response' = IF ~MOTION_SNAPSHOT_ENABLED \/ latest_snapshot = NoFrame
                   THEN Response(404, "no_snapshot", FALSE)
                   ELSE [Response(200, "snapshot", FALSE) EXCEPT !.content = latest_snapshot]
    /\ Goto(Handler, "sent")
    /\ UNCHANGED <<serveRest, state_lock, statusLocals, snapshot_history, saved, serveVars>>

MonitorServeStep ==
    \/ ServeFrame \/ L199Monitor
    \/ L201(Monitor) \/ L203(Monitor) \/ L210(Monitor) \/ L217(Monitor) \/ L221(Monitor)
    \/ L224(Monitor) \/ L227(Monitor) \/ L228(Monitor) \/ L237(Monitor) \/ L239(Monitor)
    \/ L242(Monitor)
    \/ Monitor307 \/ MonitorGetStatus \/ MonitorGetStatusExit
    \/ Save141 \/ Save142 \/ Save145 \/ Save149

HandlerStep ==
    \/ ServeCall
    \/ L265(Handler) \/ L267(Handler) \/ L269(Handler) \/ ServeStatusReturn
    \/ Serve517 \/ Serve518
    \/ L277(Handler) \/ L278(Handler) \/ ServeActiveReturn
    \/ Serve554 \/ Serve555 \/ Serve559 \/ Serve560

ServeNext == MonitorServeStep \/ HandlerStep

\* the monitoring thread and one request handler side by side
ServeSpec == ServeInit /\ [][ServeNext]_vars

\* ---------------------------------------------------------- StreamingOutput
\* the thread of the camera encoder, which calls StreamingOutput.write
Camera == "camera"

\* b'\xff\xd8', the JPEG start marker
Marker == <<255, 216>>

\* the buffers the encoder may hand to write: three frames of different
\* lengths, and two pieces that do not begin with the marker
Bufs == {<<255, 216, 1, 2>>, <<255, 216, 3>>, <<255, 216>>, <<1, 2>>, <<255>>}

\* buf.startswith(b'\xff\xd8')
StartsWithMarker(b) == Len(b) >= Len(Marker) /\ SubSeq(b, 1, Len(Marker)) = Marker

\* io.BytesIO.truncate(): the contents are cut at the current position, which
\* stays where it is
BytesTruncate(bio) ==
    [bio EXCEPT !.data = IF bio.pos < Len(bio.data) THEN SubSeq(bio.data, 1, bio.pos)
                         ELSE bio.data]

\* io.BytesIO.seek(p)
BytesSeek(bio, p) == [bio EXCEPT !.pos = p]

\* io.BytesIO.write(b): the bytes overwrite the contents from the position
\* on (a gap before it is filled with zeros), whatever follows them stays
BytesWrite(bio, b) ==
    [data |-> [i \in 1 .. Max(Len(bio.data), bio.pos + Len(b)) |->
                    IF i > bio.pos /\ i <= bio.pos + Len(b) THEN b[i - bio.pos]
                    ELSE IF i <= Len(bio.data) THEN bio.data[i]
                    ELSE 0],
     pos |-> bio.pos + Len(b)]

\* io.BytesIO.getvalue()
BytesGetValue(bio) == bio.data

\* the camera has been started and the monitoring thread is about to wait
StreamInit ==
    /\ Init
    /\ threshold = 50
    /\ cooldown_seconds = 2

\* what no step of write and no step of the loop before check_motion touches
streamRest == <<config, fields, state_lock, now, checkLocals, statusLocals, history,
                compareVars, snapshotVars, mainVars, serveVars, AUTH_ENABLED, AUTH_USER,
                AUTH_PASS, request, response, motion_detected, change_pct>>

\* lines 53-55: write(buf) is called; a buffer that does not begin with the
\* marker is dropped
Write55 ==
    /\ writer_pc = "idle"
    /\ stored_seq < MaxWrites
    /\ \E b \in Bufs :
          /\ buf' = b
          /\ writer_pc' = IF StartsWithMarker(b) THEN "l57" ELSE "idle"
    /\ UNCHANGED <<streamRest, pc, stream_frame, current_frame, output_frame, buffer,
                   condition, stored_seq, taken_seq, checked, last_marked>>

\* line 57: with self.condition
Write57 ==
    /\ writer_pc = "l57"
    /\ condition = Free
    /\ condition' = Camera
    /\ writer_pc' = "l58"
    /\ UNCHANGED <<streamRest, pc, stream_frame, current_frame, output_frame, buffer, buf,
                   stored_seq, taken_seq, checked, last_marked>>

\* lines 58-61: truncate, seek(0), write(buf), self.frame = getvalue()
Write58 ==
    /\ writer_pc = "l58"
    /\ buffer' = BytesWrite(BytesSeek(BytesTruncate(buffer), 0), buf)
    /\ output_frame' = BytesGetValue(buffer')
    /\ stored_seq' = stored_seq + 1
    /\ last_marked' = buf
    /\ writer_pc' = "l62"
    /\ UNCHANGED <<streamRest, pc, stream_frame, current_frame, condition, buf,
                   taken_seq, checked>>

\* line 62: self.condition.notify_all() wakes the loop if it is waiting
Write62 ==
    /\ writer_pc = "l62"
    /\ pc' = [pc EXCEPT ![Monitor] = IF pc[Monitor] = "waiting" THEN "notified"
                                       ELSE pc[Monitor]]
    /\ writer_pc' = "l63"
    /\ UNCHANGED <<streamRest, stream_frame, current_frame, output_frame, buffer, condition,
                   buf, stored_seq, taken_seq, checked, last_marked>>

\* the end of the with block of line 57
WriteExit ==
    /\ writer_pc = "l63"
    /\ condition' = Free
    /\ writer_pc' = "idle"
    /\ UNCHANGED <<streamRest, pc, stream_frame, current_frame, output_frame, buffer, buf,
                   stored_seq, taken_seq, checked, last_marked>>

\* line 293: with streaming_output.condition
Stream293 ==
    /\ pc[Monitor] = "idle"
    /\ condition = Free
    /\ condition' = Monitor
    /\ Goto(Monitor, "l294")
    /\ UNCHANGED <<streamRest, stream_frame, current_frame, output_frame, buffer, writer_pc,
                   buf, stored_seq, taken_seq, checked, last_marked>>

\* line 294: condition.wait() releases the condition and blocks
Stream294 ==
    /\ pc[Monitor] = "l294"
    /\ condition' = Free
    /\ Goto(Monitor, "waiting")
    /\ UNCHANGED <<streamRest, stream_frame, current_frame, output_frame, buffer, writer_pc,
                   buf, stored_seq, taken_seq, checked, last_marked>>

\* mutant of StreamWake: wait() returns without having been notified
StreamWakeUnnotified ==
    /\ pc[Monitor] \in {"waiting", "notified"}
    /\ condition = Free
    /\ condition' = Monitor
    /\ Goto(Monitor, "l295")
    /\ UNCHANGED <<streamRest, stream_frame, current_frame, output_frame, buffer, writer_pc,
                   buf, stored_seq, taken_seq, checked, last_marked>>

\* line 294: the notified loop takes the condition again and wait() returns
StreamWake ==
    /\ pc[Monitor] = "notified"
    /\ condition = Free
    /\ condition' = Monitor
    /\ Goto(Monitor, "l295")
    /\ UNCHANGED <<streamRest, stream_frame, current_frame, output_frame, buffer, writer_pc,
                   buf, stored_seq, taken_seq, checked, last_marked>>

\* line 295: frame_bytes = streaming_output.frame, and the end of the with
\* block (here frame_bytes holds the bytes as written, not a decoded image)
Stream295 ==
    /\ pc[Monitor] = "l295"
    /\ stream_frame' = output_frame
    /\ taken_seq' = stored_seq
    /\ condition' = Free
    /\ Goto(Monitor, "l297")
    /\ UNCHANGED <<streamRest, current_frame, output_frame, buffer, writer_pc, buf,
                   stored_seq, checked, last_marked>>

\* lines 297-307: None is skipped; any other frame becomes current_frame and
\* is passed to check_motion, and the loop comes back to line 293
Stream297 ==
    /\ pc[Monitor] = "l297"
    /\ IF stream_frame = NoBytes
       THEN UNCHANGED <<current_frame, checked>>
       ELSE /\ current_frame' = stream_frame
            /\ checked' = IF motion_detector # "None" THEN Append(checked, taken_seq)
                          ELSE checked
    /\ Goto(Monitor, "idle")
    /\ UNCHANGED <<streamRest, stream_frame, output_frame, buffer, condition, writer_pc, buf,
                   stored_seq, taken_seq, last_marked>>

StreamNext ==
    \/ Write55 \/ Write57 \/ Write58 \/ Write62 \/ WriteExit
    \/ Stream293 \/ Stream294 \/ StreamWake \/ Stream295 \/ Stream297

\* the camera encoder writing frames and the monitoring loop taking them
StreamSpec == StreamInit /\ [][StreamNext]_vars

\* ================================================================== claims
\* a check_motion call that has made all its writes and still holds the lock:
\* pre[t] holds the fields it found, the variables the fields it leaves
AtExit(t) == pc[t] = "exit"

\* what get_status reports of a snapshot of the fields
StatusOf(snap) ==
    [state |-> snap.state,
     motion_event_count |-> snap.motion_event_count,
     last_motion_time |-> snap.last_motion_time,
     last_change_percentage |-> snap.last_change_percentage,
     threshold |-> threshold,
     cooldown_seconds |-> cooldown_seconds]

\* the comparison the Idle branch makes for thread t's call
IdleResult(t) == compare_frames(pre[t].previous_frame, arg[t], DefaultPixelThreshold)

\* C1: a call that finds the primed detector Idle stores the frame as
\* previous_frame and the comparison result as last_change_percentage; with a
\* result >= threshold it ends in MotionDetected with one more event,
\* last_motion_time set to a time within the call, and returns (true, result);
\* otherwise it stays Idle with the same count and returns (false, result).
C1_IdleBranch ==
    \A t \in CheckThreads :
        (AtExit(t) /\ pre[t].state = STATE_IDLE /\ pre[t].previous_frame # NoFrame) =>
            /\ previous_frame = arg[t]
            /\ last_change_percentage = IdleResult(t)
            /\ IF IdleResult(t) >= threshold
               THEN /\ state = STATE_MOTION_DETECTED
                    /\ motion_event_count = pre[t].motion_event_count + 1
                    /\ last_motion_time >= pre[t].now
                    /\ last_motion_time <= now
                    /\ ret[t] = Ret(TRUE, IdleResult(t))
               ELSE /\ state = STATE_IDLE
                    /\ motion_event_count = pre[t].motion_event_count
                    /\ last_motion_time = pre[t].last_motion_time
                    /\ ret[t] = Ret(FALSE, IdleResult(t))

\* C1 witness: an Idle call whose result equals a non-zero threshold starts motion
C1_Witness ==
    \E t \in CheckThreads :
        /\ AtExit(t) /\ pre[t].state = STATE_IDLE /\ pre[t].previous_frame # NoFrame
        /\ threshold > 0 /\ IdleResult(t) = threshold
        /\ ret[t].motion /\ motion_event_count = 1

\* C2: a call that finds the detector in Cooldown and ends while less than
\* cooldown_seconds have passed since the transition returns motion = false
\* and leaves motion_event_count alone, whatever the frame.
C2_CooldownBlocks ==
    \A t \in CheckThreads :
        (AtExit(t) /\ pre[t].state = STATE_COOLDOWN
            /\ now - pre[t].last_motion_time < cooldown_seconds) =>
            /\ ret[t].motion = FALSE
            /\ motion_event_count = pre[t].motion_event_count

\* C2 witness: a frame that would start motion is refused during the cooldown
C2_Witness ==
    \E t \in CheckThreads :
        /\ AtExit(t) /\ pre[t].state = STATE_COOLDOWN
        /\ now - pre[t].last_motion_time < cooldown_seconds
        /\ IdleResult(t) >= threshold
        /\ ret[t].motion = FALSE

\* C3: a call that finds the detector in Cooldown with elapsed >= cooldown_seconds
\* (boundary included) re-baselines to its frame and runs the Idle branch in the
\* same call: result >= threshold ends in MotionDetected with one more event and
\* returns true, otherwise the call ends Idle and returns false.
C3_CooldownExpiry ==
    \A t \in CheckThreads :
        (AtExit(t) /\ pre[t].state = STATE_COOLDOWN
            /\ pre[t].now - pre[t].last_motion_time >= cooldown_seconds) =>
            /\ baseline_frame = arg[t]
            /\ previous_frame = arg[t]
            /\ last_change_percentage = IdleResult(t)
            /\ IF IdleResult(t) >= threshold
               THEN /\ state = STATE_MOTION_DETECTED
                    /\ motion_event_count = pre[t].motion_event_count + 1
                    /\ ret[t] = Ret(TRUE, IdleResult(t))
               ELSE /\ state = STATE_IDLE
                    /\ motion_event_count = pre[t].motion_event_count
                    /\ ret[t] = Ret(FALSE, IdleResult(t))

\* C3 witness: exactly cooldown_seconds > 0 after motion ended, the second event starts
C3_Witness ==
    \E t \in CheckThreads :
        /\ AtExit(t) /\ pre[t].state = STATE_COOLDOWN
        /\ cooldown_seconds > 0
        /\ pre[t].now - pre[t].last_motion_time = cooldown_seconds
        /\ ret[t].motion /\ motion_event_count = 2

\* C4: motion_event_count never decreases, and whenever no check_motion call is
\* inside the locked region it equals the number of Idle -> MotionDetected
\* transitions made so far.
C4_CountIsTransitions ==
    /\ [](state_lock \notin CheckThreads => motion_event_count = transitions)
    /\ [][motion_event_count' >= motion_event_count]_vars

\* C4 witness: two transitions counted while another caller waits for the lock
C4_Witness ==
    /\ state_lock \notin CheckThreads
    /\ transitions = 2 /\ motion_event_count = 2
    /\ \E t \in CheckThreads : pc[t] = "l199"

\* C5 (as claimed): a call that finds MotionDetected and is given the baseline
\* frame ends in Cooldown and returns motion = false, for every threshold.
C5_BaselineEndsMotion ==
    \A t \in CheckThreads :
        (AtExit(t) /\ pre[t].state = STATE_MOTION_DETECTED
            /\ arg[t] = pre[t].baseline_frame) =>
            /\ state = STATE_COOLDOWN
            /\ ret[t].motion = FALSE

\* C6: the first call with a frame returns (false, 0), stores the frame as
\* previous_frame and baseline_frame and leaves the state Idle and the count 0.
C6_FirstCallPrimes ==
    \A t \in CheckThreads :
        (AtExit(t) /\ pre[t].previous_frame = NoFrame) =>
            /\ ret[t] = Ret(FALSE, 0)
            /\ previous_frame = arg[t]
            /\ baseline_frame = arg[t]
            /\ state = STATE_IDLE
            /\ motion_event_count = 0
            /\ last_motion_time = NoTime

\* C6 witness: the first call, with a frame that is not even decodable
C6_Witness ==
    \E t \in CheckThreads :
        AtExit(t) /\ pre[t].previous_frame = NoFrame /\ arg[t] = Garbage

\* C7 (as claimed): a call that finds the primed detector Idle and is given the
\* previous frame again returns motion = false and stays Idle, for every threshold.
C7_IdenticalStaysIdle ==
    \A t \in CheckThreads :
        (AtExit(t) /\ pre[t].state = STATE_IDLE /\ pre[t].previous_frame # NoFrame
            /\ arg[t] = pre[t].previous_frame) =>
            /\ ret[t].motion = FALSE
            /\ state = STATE_IDLE

\* C8: the dict get_status returns equals the fields as the last complete
\* check_motion call left them; a dict with state motion_detected has
\* motion_event_count >= 1 and a non-null last_motion_time.
C8_StatusNotTorn ==
    \A s \in StatusThreads :
        pc[s] = "l273" =>
            /\ res[s] = StatusOf(committed)
            /\ res[s].state = STATE_MOTION_DETECTED =>
                   /\ res[s].motion_event_count >= 1
                   /\ res[s].last_motion_time # NoTime

\* C8 witness: a status read of motion_detected while check_motion callers wait
C8_Witness ==
    \E s \in StatusThreads :
        /\ pc[s] = "l273" /\ res[s].state = STATE_MOTION_DETECTED
        /\ \A t \in CheckThreads : pc[t] = "l199"

\* the positions at which a thread holds state_lock
Locked == {"l201", "l203", "l210", "l217", "l221", "l224", "l227", "l228", "l237",
           "l239", "l242", "exit", "l267", "l269", "l273", "l278", "l278r"}

\* C9: state_lock is held exactly by the one thread inside a with block (so every
\* path out of a call has released it), and every call that has begun returns.
C9_CallsReturn ==
    /\ [](\A t \in Threads : pc[t] \in Locked <=> state_lock = t)
    /\ \A t \in Threads : (pc[t] # "idle") ~> (pc[t] = "idle")

\* C9 witness: both check_motion callers and the status reader are blocked on the
\* lock's holder at once
C9_Witness ==
    \E t \in CheckThreads :
        /\ pc[t] = "exit" /\ state_lock = t
        /\ \A u \in Threads \ {t} : pc[u] \in {"l199", "l265", "l277"}

\* C10: no step of get_status or is_motion_active changes a detector field;
\* the dict returned holds the six values of the instant it is returned, and
\* is_motion_active returns true exactly when the state is MotionDetected.
C10_StatusReadOnly ==
    [][\A s \in StatusThreads :
          pc'[s] # pc[s] =>
              /\ fields' = fields
              /\ config' = config
              /\ pc'[s] = "l273" => res'[s] = StatusOf(Snapshot)'
              /\ pc'[s] = "l278r" => (act'[s] <=> state' = STATE_MOTION_DETECTED)]_vars

\* C10 witness: is_motion_active answers in Cooldown
C10_Witness ==
    \E s \in StatusThreads : pc[s] = "l278r" /\ state = STATE_COOLDOWN /\ ~act[s]

\* C11: a check_motion call with an absent frame returns (false, 0) and no step
\* of it changes a detector field, whatever state the detector is in.
C11_NoneChangesNothing ==
    [][\A t \in CheckThreads :
          (pc[t] # pc'[t] /\ (pc'[t] = "l197" \/ pc[t] = "l197")) =>
              /\ fields' = fields
              /\ config' = config
              /\ pc'[t] = "l197" => ret'[t] = Ret(FALSE, 0)]_vars

\* C11 witness: the absent frame arrives while motion is being detected and
\* the last change percentage is not 0
C11_Witness ==
    \E t \in CheckThreads :
        /\ pc[t] = "l197" /\ ret[t] = Ret(FALSE, 0)
        /\ state = STATE_MOTION_DETECTED /\ last_change_percentage > 0

\* C12 (as claimed): every check_motion call, the one with an absent frame
\* included, returns state = MotionDetected and last_change_percentage as they
\* are when it returns.
C12_EveryCallReportsState ==
    [][\A t \in CheckThreads :
          (pc[t] # pc'[t] /\ pc'[t] \in {"exit", "l197"}) =>
              /\ ret'[t].motion <=> state' = STATE_MOTION_DETECTED
              /\ ret'[t].pct = last_change_percentage']_vars

\* C12 (amended): every check_motion call with a frame returns
\* state = MotionDetected and last_change_percentage as they are at its end.
C12_FrameCallReportsState ==
    \A t \in CheckThreads :
        AtExit(t) =>
            /\ ret[t].motion <=> state = STATE_MOTION_DETECTED
            /\ ret[t].pct = last_change_percentage

\* C12 witness: a call that ends motion returns false with the new percentage,
\* after a call that reported motion
C12_Witness ==
    \E t \in CheckThreads :
        /\ AtExit(t) /\ pre[t].state = STATE_MOTION_DETECTED
        /\ state = STATE_COOLDOWN /\ ret[t] = Ret(FALSE, last_change_percentage)
        /\ pre[t].last_change_percentage # last_change_percentage

\* C13: whenever a detector has been constructed, its threshold lies in
\* [0, 100] and its cooldown is not negative (invalid values are rejected
\* before the detector exists).
C13_ConfigValidated ==
    motion_detector = "detector" =>
        /\ 0 <= threshold /\ threshold <= 100
        /\ cooldown_seconds >= 0

\* C14: with snapshots enabled and a limit N > 0 the history holds at most N
\* entries, and they are the most recently saved ones in the order they were
\* saved; with limit 0 the history is everything that was ever saved.
C14_HistoryIsMostRecent ==
    MOTION_SNAPSHOT_ENABLED =>
        LET kept == Len(snapshot_history)
            all == Len(saved)
        IN  /\ MOTION_SNAPSHOT_LIMIT > 0 =>
                  /\ kept <= MOTION_SNAPSHOT_LIMIT
                  /\ kept = IF all < MOTION_SNAPSHOT_LIMIT THEN all
                            ELSE MOTION_SNAPSHOT_LIMIT
            /\ MOTION_SNAPSHOT_LIMIT = 0 => kept = all
            /\ kept <= all
            /\ \A i \in 1 .. kept : snapshot_history[i] = saved[all - kept + i]

\* four snapshots were saved under limit 2: the two oldest were evicted
C14_Witness ==
    /\ MOTION_SNAPSHOT_ENABLED
    /\ MOTION_SNAPSHOT_LIMIT = 2
    /\ Len(saved) = 4
    /\ snapshot_history = <<saved[3], saved[4]>>
    /\ saved[1] # saved[3]
    /\ saved[2] # saved[4]

Returned == outcome.at = "returned"
Raised == outcome.at = "raised"

\* C15: when either frame is absent or cannot be decoded, compare_frames does
\* not raise and what it returns is 0.0.
C15_AbsentOrUndecodableIsZero ==
    (~Decodable(frame1_bytes) \/ ~Decodable(frame2_bytes)) =>
        /\ ~Raised
        /\ Returned => outcome.value = 0

\* a decodable frame was compared with undecodable bytes, and 0.0 came back
\* from the exception handler
C15_Witness ==
    /\ Returned
    /\ outcome.value = 0
    /\ frame1_bytes = White
    /\ frame2_bytes = Garbage

\* C16: for any two inputs, decodable images of different dimensions
\* included, compare_frames does not raise and returns a value in [0, 100]
\* (stated for calls that use the default pixel threshold).
C16_ResultBounded ==
    pixel_threshold = DefaultPixelThreshold =>
        /\ ~Raised
        /\ Returned => (0 <= outcome.value /\ outcome.value <= 100)

\* C17: comparing a frame with itself under a threshold t >= 0 returns
\* exactly 0.0.
C17_SelfCompareIsZero ==
    (Returned /\ frame1_bytes = frame2_bytes /\ pixel_threshold >= 0) =>
        outcome.value = 0

\* a decodable frame with two different pixels was compared with itself at
\* threshold 0, through the try block
C17_Witness ==
    /\ Returned
    /\ frame1_bytes = Half
    /\ frame2_bytes = Half
    /\ pixel_threshold = 0
    /\ outcome.value = 0

\* a frame whose pixels are all the same value
Uniform(f) == Decodable(f) /\ \A i \in 1 .. Len(f.px) : f.px[i] = f.px[1]

\* C18: for a fixed pair of frames the result does not increase as the
\* threshold grows; for two uniform frames whose intensities differ by 2,
\* threshold 1 reports change and threshold 10 reports none.
C18_NonIncreasingInThreshold ==
    Returned =>
        /\ \A t \in PixelThresholds :
              /\ pixel_threshold <= t =>
                    outcome.value >= compare_frames(frame1_bytes, frame2_bytes, t)
              /\ t <= pixel_threshold =>
                    compare_frames(frame1_bytes, frame2_bytes, t) >= outcome.value
        /\ ( /\ Uniform(frame1_bytes) /\ Uniform(frame2_bytes)
             /\ frame1_bytes.h = frame2_bytes.h /\ frame1_bytes.w = frame2_bytes.w
             /\ Abs(frame1_bytes.px[1] - frame2_bytes.px[1]) = 2 ) =>
                /\ pixel_threshold = 1 => outcome.value > 0
                /\ pixel_threshold = 10 => outcome.value = 0

\* uniform 128 against uniform 130 at threshold 1: every pixel changed
C18_Witness ==
    /\ Returned
    /\ frame1_bytes = Gray128
    /\ frame2_bytes = Gray130
    /\ pixel_threshold = 1
    /\ outcome.value = 100
    /\ compare_frames(Gray128, Gray130, 10) = 0

\* C19 (as claimed): a call whose comparison fails (the frame it is given, or
\* the reference frame it is compared with, is undecodable) returns
\* motion = false, whether it found the detector Idle or MotionDetected and
\* for every threshold.
C19_FailedComparisonNoMotion ==
    \A t \in CheckThreads :
        (AtExit(t) /\ pre[t].previous_frame # NoFrame
            /\ \/ pre[t].state = STATE_IDLE
                  /\ TryRaises(pre[t].previous_frame, arg[t])
               \/ pre[t].state = STATE_MOTION_DETECTED
                  /\ TryRaises(pre[t].baseline_frame, arg[t])) =>
            ret[t].motion = FALSE

\* the requests for the health endpoint
HealthPaths == {<<"/", "health">>, <<"/", "health", "?", "t">>}

\* a Basic header (the scheme in any case) carrying the base64 of exactly
\* AUTH_USER ":" AUTH_PASS
GoodCredentials(h) ==
    /\ h.present /\ h.space /\ h.decodes
    /\ h.scheme \in {"Basic", "basic", "BASIC"}
    /\ h.text = AUTH_USER \o <<":">> \o AUTH_PASS

HandlerDone == request.at = "done"

\* C20: with authentication enabled, a finished GET for anything but health
\* that carried no header, a non-Basic header, malformed credentials or a
\* wrong username/password was answered 401 with the challenge and nothing
\* else; a GET for health was answered 200 whatever it carried; with
\* authentication disabled check_auth is true and nothing is answered 401.
C20_AuthGate ==
    /\ (HandlerDone /\ AUTH_ENABLED /\ request.path \notin HealthPaths
            /\ ~GoodCredentials(request.header)) =>
                response = Response(401, "unauthorized", TRUE)
    /\ (HandlerDone /\ request.path \in HealthPaths) => response.code = 200
    /\ ~AUTH_ENABLED =>
            /\ \A h \in Headers : check_auth(h)
            /\ response.code # 401

\* with authentication on, a request for the frame with the right user and a
\* wrong password was refused
C20_Witness ==
    /\ HandlerDone
    /\ AUTH_ENABLED
    /\ request.path = <<"/", "webcam.jpg", "?", "health">>
    /\ request.header = Header("Basic", TRUE, TRUE, <<"user", ":", "wrong">>)
    /\ response.code = 401

\* the filenames do_GET treats as files (none of its endpoints)
FileRequest(filename) ==
    filename \notin {<<"stream">>, <<"webcam.jpg">>, <<"health">>,
                     <<"motion", "/", "status">>, <<"motion", "/", "snapshot">>}

\* the resolved location is the current directory or lies below it
InsideCurrentDir(resolved) ==
    /\ Len(resolved) >= Len(CurrentDir)
    /\ SubSeq(resolved, 1, Len(CurrentDir)) = CurrentDir

\* C21 (as claimed): a finished file request that passed the authentication
\* gate was answered 403, without the file being served, whenever the path
\* resolves outside the current directory, and was not answered 403 when it
\* resolves inside it.
C21_TraversalBlocked ==
    (HandlerDone /\ response.code # 401 /\ FileRequest(Filename(request.path))) =>
        LET resolved == abspath(Filename(request.path))
        IN  /\ ~InsideCurrentDir(resolved) => response = Response(403, "forbidden", FALSE)
            /\ InsideCurrentDir(resolved) => response.code # 403

\* C22: the step that serves /webcam.jpg answers 503 exactly when
\* current_frame holds no frame at that moment, and otherwise answers 200
\* with content type image/jpeg and the bytes current_frame holds.
C22_WebcamJpg ==
    [][(request.at = "route" /\ request'.at = "done"
            /\ Filename(request.path) = <<"webcam.jpg">>) =>
          /\ response'.code = 503 <=> current_frame = NoFrame
          /\ current_frame # NoFrame =>
                /\ response'.code = 200
                /\ response'.ctype = "image/jpeg"
                /\ response'.content = current_frame]_vars

\* /webcam.jpg was served with a stored frame, and another frame has been
\* stored since
C22_Witness ==
    /\ HandlerDone
    /\ Filename(request.path) = <<"webcam.jpg">>
    /\ response.code = 200
    /\ response.content = White
    /\ current_frame = Black

\* what the MotionDetected branch of a call computes: the frame of the call
\* against the baseline the call found
BaselineResult(t) ==
    compare_frames(pre[t].baseline_frame, arg[t], DefaultPixelThreshold)

\* last_motion_time was set to the clock as it stood during the call
StampedDuring(t) == pre[t].now <= last_motion_time /\ last_motion_time <= now

\* C23: a call that finds MotionDetected compares its frame with
\* baseline_frame; a result below the threshold ends in Cooldown with
\* (false, result), any other result stays in MotionDetected with
\* (true, result); both stamp last_motion_time, leave motion_event_count
\* alone, store the frame as previous_frame and the result as
\* last_change_percentage.
C23_MotionDetectedBranch ==
    \A t \in CheckThreads :
        (AtExit(t) /\ pre[t].state = STATE_MOTION_DETECTED) =>
            /\ BaselineResult(t) < threshold =>
                    state = STATE_COOLDOWN /\ ret[t] = Ret(FALSE, BaselineResult(t))
            /\ BaselineResult(t) >= threshold =>
                    state = STATE_MOTION_DETECTED /\ ret[t] = Ret(TRUE, BaselineResult(t))
            /\ StampedDuring(t)
            /\ motion_event_count = pre[t].motion_event_count
            /\ previous_frame = arg[t]
            /\ last_change_percentage = BaselineResult(t)

\* motion ended on a frame that matches the baseline but differs from the
\* previous frame
C23_Witness ==
    \E t \in CheckThreads :
        /\ AtExit(t) /\ pre[t].state = STATE_MOTION_DETECTED
        /\ state = STATE_COOLDOWN
        /\ BaselineResult(t) < threshold
        /\ compare_frames(pre[t].previous_frame, arg[t], DefaultPixelThreshold) >= threshold
        /\ threshold > 0

\* C24 (as claimed): a call that made the Idle -> MotionDetected or the
\* Cooldown -> Idle transition leaves its own frame in baseline_frame.
C24_BaselineIsTransitionFrame ==
    \A t \in CheckThreads :
        (AtExit(t) /\ pre[t].state # state
            /\ state \in {STATE_IDLE, STATE_MOTION_DETECTED}) =>
            baseline_frame = arg[t]

\* a call is between its transition and its write of baseline_frame
WritingBaseline == \E t \in CheckThreads : pc[t] \in {"l203", "l210"}

\* C24 (amended): once the detector is primed, baseline_frame is the frame of
\* the most recent call that primed it or made the Cooldown -> Idle
\* transition; the Idle -> MotionDetected transition does not write it.
C24_BaselineIsPrimingOrExpiryFrame ==
    /\ ~WritingBaseline => baseline_frame = baseline_origin
    /\ \A t \in CheckThreads :
          (AtExit(t) /\ pre[t].state = STATE_IDLE /\ state = STATE_MOTION_DETECTED) =>
              baseline_frame = pre[t].baseline_frame

\* motion began on a frame that differs from the baseline, after a cooldown
\* had expired on the frame that is still the baseline
C24_Witness ==
    \E t \in CheckThreads :
        /\ AtExit(t) /\ pre[t].state = STATE_IDLE /\ state = STATE_MOTION_DETECTED
        /\ baseline_frame # arg[t]
        /\ baseline_frame = baseline_origin
        /\ motion_event_count = 2

\* C25 (as claimed): a call that leaves the detector in MotionDetected has not
\* itself written baseline_frame: the baseline is a frame received before
\* that call, not the frame on which the call reports motion.
C25_BaselineIsAtRest ==
    \A t \in CheckThreads :
        (AtExit(t) /\ state = STATE_MOTION_DETECTED) =>
            /\ baseline_by # t
            /\ baseline_frame = pre[t].baseline_frame

\* the call made the comparison of the Idle branch (lines 217-221)
ComparedInIdle(t) ==
    /\ pre[t].previous_frame # NoFrame
    /\ \/ pre[t].state = STATE_IDLE
       \/ pre[t].state = STATE_COOLDOWN /\ state # STATE_COOLDOWN

\* C26 (as claimed): the reference frame of an Idle-branch comparison is the
\* frame of the immediately preceding call that carried a frame.
C26_ReferenceIsPrecedingFrame ==
    \A t \in CheckThreads :
        (AtExit(t) /\ ComparedInIdle(t)) => pre[t].previous_frame = last_supplied

\* C26 (amended): the reference frame of an Idle-branch comparison is the
\* frame of the most recent preceding call that primed the detector or made
\* a comparison; calls answered while the cooldown was active are skipped.
C26_ReferenceIsLastComparedFrame ==
    \A t \in CheckThreads :
        (AtExit(t) /\ ComparedInIdle(t)) => pre[t].previous_frame = last_compared

\* the first Idle comparison after a cooldown, made against the frame that
\* ended the motion although a later frame was supplied during the cooldown
C26_Witness ==
    \E t \in CheckThreads :
        /\ AtExit(t) /\ pre[t].state = STATE_COOLDOWN /\ state # STATE_COOLDOWN
        /\ pre[t].previous_frame = last_compared
        /\ last_supplied # last_compared

\* what the comparison of a call would give with the detector's configured
\* threshold as its threshold argument
ConfiguredResult(t) ==
    IF pre[t].state = STATE_MOTION_DETECTED
    THEN compare_frames(pre[t].baseline_frame, arg[t], threshold)
    ELSE compare_frames(pre[t].previous_frame, arg[t], threshold)

\* C27 (as claimed): the change percentage of every comparing call is the one
\* compare_frames gives when it is passed the detector's configured threshold.
C27_ComparesWithConfiguredThreshold ==
    \A t \in CheckThreads :
        (AtExit(t) /\ pre[t].previous_frame # NoFrame
            /\ pre[t].state \in {STATE_IDLE, STATE_MOTION_DETECTED}) =>
            last_change_percentage = ConfiguredResult(t)

\* C28: a call that finds the cooldown still active returns
\* (false, last_change_percentage) and leaves every detector field as it
\* found it; no comparison result is stored.
C28_ActiveCooldownShortCircuits ==
    \A t \in CheckThreads :
        (AtExit(t) /\ pre[t].state = STATE_COOLDOWN
            /\ now - pre[t].last_motion_time < cooldown_seconds) =>
            /\ ret[t] = Ret(FALSE, pre[t].last_change_percentage)
            /\ state = pre[t].state
            /\ previous_frame = pre[t].previous_frame
            /\ baseline_frame = pre[t].baseline_frame
            /\ motion_event_count = pre[t].motion_event_count
            /\ last_motion_time = pre[t].last_motion_time
            /\ last_change_percentage = pre[t].last_change_percentage
            /\ chg[t] = 0

\* during an active cooldown a call was given a frame that differs from the
\* previous frame and from the baseline, and changed nothing
C28_Witness ==
    \E t \in CheckThreads :
        /\ AtExit(t) /\ pre[t].state = STATE_COOLDOWN
        /\ now - pre[t].last_motion_time < cooldown_seconds
        /\ state = STATE_COOLDOWN
        /\ compare_frames(previous_frame, arg[t], DefaultPixelThreshold) >= threshold
        /\ arg[t] # baseline_frame

\* C29: a call that finds MotionDetected leaves baseline_frame as it found
\* it, whether it stays in MotionDetected or moves to Cooldown; every step
\* that changes baseline_frame belongs to a call that is priming the detector
\* or has just made the Cooldown -> Idle transition.
C29_BaselineFrozenInMotion ==
    /\ [](\A t \in CheckThreads :
            (AtExit(t) /\ pre[t].state = STATE_MOTION_DETECTED) =>
                baseline_frame = pre[t].baseline_frame)
    /\ [][baseline_frame' # baseline_frame =>
            \E t \in CheckThreads :
                /\ state_lock = t
                /\ baseline_frame' = arg[t]
                /\ \/ pre[t].previous_frame = NoFrame
                   \/ pre[t].state = STATE_COOLDOWN /\ state = STATE_IDLE]_vars

\* motion continued on a frame that is not the baseline, and the baseline
\* stayed
C29_Witness ==
    \E t \in CheckThreads :
        /\ AtExit(t) /\ pre[t].state = STATE_MOTION_DETECTED
        /\ state = STATE_MOTION_DETECTED
        /\ arg[t] # baseline_frame
        /\ arg[t] # pre[t].previous_frame
        /\ baseline_frame = pre[t].baseline_frame

\* C30: the snapshot history receives an entry only on a rising motion edge:
\* the monitoring loop saves a frame only if check_motion made the
\* Idle -> MotionDetected transition on it, so the entries ever saved are no
\* more than the Idle -> MotionDetected transitions made.
C30_SnapshotOnlyOnRisingEdge == Len(saved) <= transitions


\* the frame a finished comparing call was compared with: the baseline for a
\* call that found MotionDetected, the previous frame otherwise
Reference(t) ==
    IF pre[t].state = STATE_MOTION_DETECTED THEN pre[t].baseline_frame
    ELSE pre[t].previous_frame

\* the call made a comparison: it neither primed nor returned at line 214
Compared(t) == AtExit(t) /\ pre[t].previous_frame # NoFrame /\ ~ShortCircuited(t)

\* C31: per-frame errors are self-healing: when the call before carried an
\* undecodable frame, the call for the next well-formed frame compares it
\* with a decodable reference frame, so that its comparison does not fail.
C31_NextFrameComparesDecodable ==
    \A t \in CheckThreads :
        (Compared(t) /\ Decodable(arg[t]) /\ last_supplied = Garbage) =>
            /\ Decodable(Reference(t))
            /\ ~TryRaises(Reference(t), arg[t])


\* the handler of a motion endpoint has sent its response
Sent(e) == pc[Handler] = "sent" /\ endpoint = e

\* C32: state_lock and snapshot_lock are independent: no thread holds both,
\* a thread that is about to take snapshot_lock (lines 141, 517, 554) does
\* not hold state_lock, a thread that is about to take state_lock (lines
\* 199, 265, 277) does not hold snapshot_lock, and so no two threads wait
\* for each other's lock.
C32_LocksIndependent ==
    \A t \in Threads :
        /\ ~(state_lock = t /\ snapshot_lock = t)
        /\ pc[t] \in {"l141", "l517", "l554"} => state_lock # t
        /\ pc[t] \in {"l199", "l265", "l277", "l310"} => snapshot_lock # t

\* the handler reads the detector under state_lock while the monitoring loop
\* is archiving a frame under snapshot_lock
C32_Witness ==
    /\ state_lock = Handler
    /\ snapshot_lock = Monitor
    /\ pc[Monitor] = "l145"
    /\ pc[Handler] = "l267"

\* C35: GET motion/snapshot reads, under snapshot_lock, the bytes of the
\* entry saved last (None if nothing was saved), and answers 404 without a
\* detector, with snapshots disabled or with nothing read, and 200 with the
\* bytes read as image/jpeg otherwise.
C35_SnapshotServesLatest ==
    /\ pc[Handler] = "l559" =>
            latest_snapshot = IF saved = <<>> THEN NoFrame ELSE saved[Len(saved)][2]
    /\ Sent("motion/snapshot") =>
            response =
                IF motion_detector = "None" THEN Response(404, "not_enabled", FALSE)
                ELSE IF ~MOTION_SNAPSHOT_ENABLED \/ latest_snapshot = NoFrame
                     THEN Response(404, "no_snapshot", FALSE)
                     ELSE [code |-> 200, body |-> "snapshot", challenge |-> FALSE,
                           ctype |-> "image/jpeg", content |-> latest_snapshot]

\* the second of two saved frames is served, with the history cut to one entry
C35_Witness ==
    /\ Sent("motion/snapshot")
    /\ response.code = 200
    /\ Len(saved) = 2
    /\ saved[1][2] # saved[2][2]
    /\ response.content = saved[2][2]
    /\ Len(snapshot_history) = 1

\* C36: a motion/status response is consistent in itself: currently_detecting
\* is true exactly when the state it reports is motion_detected.
C36_StatusConsistent ==
    (Sent("motion/status") /\ motion_detector # "None") =>
        (motion_status.currently_detecting <=>
            motion_status.state = STATE_MOTION_DETECTED)


\* the two frames decode to images of the same height and width
SameShape(f1, f2) == Decodable(f1) /\ Decodable(f2) /\ f1.h = f2.h /\ f1.w = f2.w

\* the pixels of two equally shaped frames whose absolute difference
\* strictly exceeds thr
Exceeding(f1, f2, thr) == {i \in 1 .. Len(f1.px) : Abs(f1.px[i] - f2.px[i]) > thr}

\* C33: for two decodable frames of equal dimensions compare_frames returns
\* 100 times the number of pixels whose absolute difference strictly exceeds
\* the threshold, divided by the number of pixels: a difference equal to the
\* threshold does not count, uniform 0 against uniform 255 gives 100, and
\* one changed pixel of two gives 50.
C33_PercentageOfExceedingPixels ==
    (Returned /\ SameShape(frame1_bytes, frame2_bytes)) =>
        /\ outcome.value * Len(frame1_bytes.px) =
                100 * Cardinality(Exceeding(frame1_bytes, frame2_bytes, pixel_threshold))
        /\ (\A i \in 1 .. Len(frame1_bytes.px) :
                Abs(frame1_bytes.px[i] - frame2_bytes.px[i]) = pixel_threshold) =>
                    outcome.value = 0
        /\ (frame1_bytes = Black /\ frame2_bytes = White /\ pixel_threshold < 255) =>
                outcome.value = 100

\* every pixel differs by 2: nothing at threshold 2, everything at threshold 1
C33_Witness ==
    /\ Returned
    /\ frame1_bytes = Gray128
    /\ frame2_bytes = Gray130
    /\ pixel_threshold = 2
    /\ outcome.value = 0
    /\ compare_frames(Gray128, Gray130, 1) = 100


\* the state changes one check_motion call may make
CallTransitions ==
    {<<STATE_IDLE, STATE_MOTION_DETECTED>>, <<STATE_MOTION_DETECTED, STATE_COOLDOWN>>,
     <<STATE_COOLDOWN, STATE_IDLE>>, <<STATE_COOLDOWN, STATE_MOTION_DETECTED>>}

\* C37: the state is always one of Idle, MotionDetected and Cooldown, and a
\* check_motion call leaves the state it found or changes it along
\* Idle -> MotionDetected, MotionDetected -> Cooldown, Cooldown -> Idle or
\* Cooldown -> MotionDetected; never Idle -> Cooldown, never
\* MotionDetected -> Idle.
C37_CallTransitions ==
    /\ state \in {STATE_IDLE, STATE_MOTION_DETECTED, STATE_COOLDOWN}
    /\ \A t \in CheckThreads :
            AtExit(t) =>
                \/ state = pre[t].state
                \/ <<pre[t].state, state>> \in CallTransitions

\* the cooldown expired and motion started again in one call
C37_Witness ==
    \E t \in CheckThreads :
        /\ AtExit(t)
        /\ pre[t].state = STATE_COOLDOWN
        /\ state = STATE_MOTION_DETECTED
        /\ cooldown_seconds > 0

\* C38: in every state a thread can observe (no check_motion call is inside
\* the locked region) last_motion_time is null exactly when
\* motion_event_count is 0, and it is not null in MotionDetected and in
\* Cooldown; when check_motion evaluates _is_cooldown_expired (line 207, in
\* Cooldown) last_motion_time is not null, so the null guard is not taken.
C38_TimeNullIffNoEvents ==
    /\ state_lock \notin CheckThreads =>
            /\ last_motion_time = NoTime <=> motion_event_count = 0
            /\ state \in {STATE_MOTION_DETECTED, STATE_COOLDOWN} => last_motion_time # NoTime
    /\ \A t \in CheckThreads :
            (pc[t] = "l201" /\ previous_frame # NoFrame /\ state = STATE_COOLDOWN) =>
                last_motion_time # NoTime

\* a call is about to evaluate _is_cooldown_expired after the first event
C38_Witness ==
    \E t \in CheckThreads :
        /\ pc[t] = "l201"
        /\ previous_frame # NoFrame
        /\ state = STATE_COOLDOWN
        /\ motion_event_count = 1
        /\ last_motion_time # NoTime
        /\ is_cooldown_expired


\* C34: the monitoring loop passes every stored frame to check_motion at most
\* once: the writes whose frames it passed on are strictly increasing, under
\* every interleaving of the camera thread and the loop.
C34_EachFrameCheckedOnce ==
    \A i \in 1 .. Len(checked) :
        /\ checked[i] >= 1
        /\ \A j \in 1 .. Len(checked) : i < j => checked[i] < checked[j]

\* the loop was woken by the second write, took the frame of the third
\* instead, and passed the first and the third on
C34_Witness == checked = <<1, 3>>

\* C39: the stored frame is exactly the most recent buffer that began with
\* the JPEG start marker (None before there was one); a buffer that does not
\* begin with it changes nothing.
C39_FrameIsLastMarkedBuffer == output_frame = last_marked

====
